---------------------------- MODULE Spec2Model ----------------------------
(***************************************************************************)
(* LibEMBD: atomic cells (libembd_atomic.h), the bounded spinlock built on  *)
(* them (libembd_spinlock_impl.h).                                          *)
(*                                                                         *)
(* A thread is a core (multi-core build) or a pre-emptible task            *)
(* (single-core build, LIBEMBD_IS_SINGLE_CORE_ONLY).  Every access to the   *)
(* shared cell is one step; the code between two accesses is local and is   *)
(* part of the step that ends with the next access or return.              *)
(*                                                                         *)
(* Multi-core build: the exclusive accesses are LDREX/STREX.  monitor[t]   *)
(* is the exclusive reservation of core t for the cell.  LDREX sets it; a   *)
(* STREX writes and returns 0 only if it is set, and returns 1 without      *)
(* writing otherwise (ARM exclusive monitor, Open Access state); a write    *)
(* to the cell clears every reservation for it.  The uint8 STREX macro of   *)
(* the multi-core branch is declared with one parameter and used with two; *)
(* it is modelled as the two-parameter __STREXB its uint16/uint32 siblings  *)
(* are.                                                                     *)
(***************************************************************************)
EXTENDS Integers, FiniteSets, Sequences, TLC

\* ---------------------------------------------------------------- bounds
NumThreads == 2
MaxIter == 2
MaxVal == 1

Threads == 1..NumThreads
Vals == 0..MaxVal
Iters == 0..MaxIter
\* the ghost counter of failed attempts saturates here (never reached by the code)
FailCap == MaxIter + 3

VARIABLES
    single_core,     \* LIBEMBD_IS_SINGLE_CORE_ONLY of the build
    probe,           \* ghost: whether the instruction stream of the
                     \* compare-exchange calls is recorded in events
    cell,            \* ptr->value: the atomic cell (the spinlock's atomic_flag)
    monitor,         \* monitor[t]: core t holds an exclusive reservation for the cell
    max_iterations,  \* spinlock->max_iterations
    inited,          \* the spinlock has been through libembd_timed_spinlock_init
    pc,              \* pc[t]: where thread t is
    op,              \* op[t]: the call thread t is in or was last in
    expected,        \* *expected of the compare-exchange of thread t
    desired,         \* desired of the compare-exchange of thread t
    old_val,         \* old_val of the compare-exchange of thread t
    success,         \* result of the last compare-exchange of thread t
    iteration,       \* iteration of libembd_timed_spinlock_acquire of thread t
    ret,             \* what the last call of thread t returned: "none", "TRUE", "FALSE"
    owner,           \* ghost: t is between its successful exchange and its release store
    failed,          \* ghost: failed compare-exchange attempts of t's try_acquire call
    changed,         \* ghost: a store of t's current call changed the cell
    held,            \* ghost: another thread held the lock at entry and no release came since
    quiet,           \* ghost: since the entry of t's call no other thread accessed the
                     \*        cell and t's reservation was not lost spuriously
    match,           \* ghost: quiet[t], and the cell equalled *expected at the entry
    sc_parity,       \* ghost: parity of the failed store-conditionals of t's strong call
    events,          \* events[t]: the barriers and the access issued by the last load
                     \*            or store call of t, in program order
    val,             \* val[t]: the value returned by t's last load / passed to its store
    mo,              \* mo[t]: the memory order of that call ("default" if not explicit)
    payload,         \* a plain (non-atomic) variable published through the cell
    inflight,        \* inflight[t]: instructions issued by core t and not yet performed
    data,            \* data[t]: the value core t read from payload
    timer,           \* one LibEmbd_Timer_t: timer_state, type, interval,
                     \* time_elapsed, on_expiry
    tick_period,     \* the period of the tick function that drives the timer
    last,            \* ghost: the timer API called last
    prior,           \* ghost: timer_state when that call was made
    result,          \* ghost: what that call returned
    invoked,         \* ghost: that call invoked the expiry callback
    ticks,           \* ghost: ticks the started timer took since it was armed
                     \*        (started, rewound or re-armed by an expiry)
    fired,           \* ghost: callbacks invoked since the last start by the
                     \*        application (saturating)
    clean,           \* ghost: no timer API but tick was called since that start
    host_little,     \* LIBEMBD_HOST_ENDIANNESS is LIBEMBD_ENDIANNESS_LITTLE_ENDIAN
    buffer,          \* the bytes of the buffer both contexts were made over
    ser,             \* one LibEmbd_Serializer_t: capacity, position
    deser,           \* one LibEmbd_Deserializer_t: capacity, position
    out,             \* the bytes the last read stored through its pointer
    skipped,         \* ghost: the context, cursor and argument of the last skip
    sent,            \* ghost: the values put since the contexts were made
    got              \* ghost: the values got since then

build == <<single_core, probe>>
hw == <<cell, monitor>>
lock == <<max_iterations, inited>>
locals == <<expected, desired, old_val, success, iteration>>
ghost == <<owner, failed, changed, held, quiet, match, sc_parity>>
order == <<events, val, mo>>
plain == <<payload, inflight, data>>
tmr == <<timer, tick_period, last, prior, result, invoked, ticks, fired, clean>>
atomics == <<build, hw, lock, pc, op, locals, ret, ghost, order, plain>>
trip == <<skipped, sent, got>>
msh == <<host_little, buffer, ser, deser, out, trip>>
rest == <<tmr, msh>>
vars == <<single_core, probe, cell, monitor, max_iterations, inited, pc, op, expected,
          desired, old_val, success, iteration, ret, owner, failed, changed,
          held, quiet, match, sc_parity, events, val, mo, payload, inflight,
          data, timer, tick_period, last, prior, result, invoked, ticks,
          fired, clean, host_little, buffer, ser, deser, out, skipped, sent,
          got>>

\* ------------------------------------------------ exclusive access primitives

\* A load-exclusive that reads another value than the cell holds.
LoadExclusiveValue_Wrong == (cell + 1) % (MaxVal + 1)

\* LIBEMBD_ATOMIC_LOAD_EXCLUSIVE: (*(p)) or __LDREX(p); the value read
LoadExclusiveValue == cell

\* the reservation after a load-exclusive by t: LDREX marks the cell for core t
LoadExclusiveMonitor(t) ==
    IF single_core THEN monitor ELSE [monitor EXCEPT ![t] = TRUE]

\* Value of the expression LIBEMBD_ATOMIC_STORE_EXCLUSIVE(v, p):
\* single-core (*(p) = v) is the value stored; multi-core __STREX(v, p) is 0 on
\* success and 1 when core t holds no reservation.
StoreExclusiveStatus(t, v) ==
    IF single_core THEN v ELSE IF monitor[t] THEN 0 ELSE 1

\* the cell after LIBEMBD_ATOMIC_STORE_EXCLUSIVE(v, p) by t
StoreExclusiveCell(t, v) ==
    IF single_core THEN v ELSE IF monitor[t] THEN v ELSE cell

\* the reservations after LIBEMBD_ATOMIC_STORE_EXCLUSIVE by t: a STREX always
\* ends t's reservation, and a write to the cell ends every other one too
StoreExclusiveMonitor(t) ==
    IF single_core THEN monitor
    ELSE IF monitor[t] THEN [u \in Threads |-> FALSE]
         ELSE [monitor EXCEPT ![t] = FALSE]

\* LIBEMBD_ATOMIC_CLEAR_EXCLUSIVE_MONITOR: __CLREX()
ClearExclusiveMonitor(t) == [monitor EXCEPT ![t] = FALSE]

Min(a, b) == IF a < b THEN a ELSE b

\* ghost: an access of thread u to the cell ends the quiet of every other call
Disturbed(u) == [t \in Threads |-> IF t = u THEN quiet[t] ELSE FALSE]
DisturbedMatch(u) == [t \in Threads |-> IF t = u THEN match[t] ELSE FALSE]

\* ------------------------------------------------------------ initial states

TypeOK ==
    /\ single_core \in BOOLEAN
    /\ probe \in BOOLEAN
    /\ cell \in Nat
    /\ monitor \in [Threads -> BOOLEAN]
    /\ max_iterations \in Nat
    /\ inited \in BOOLEAN
    /\ pc \in [Threads -> {"idle", "weak_load", "weak_store", "weak_ret",
                           "strong_load", "strong_store"}]
    /\ op \in [Threads -> {"none", "acquire", "release", "weak", "strong",
                           "load", "store", "load_explicit", "store_explicit",
                           "publish", "consume"}]
    /\ ret \in [Threads -> {"none", "TRUE", "FALSE"}]

\* ------------------------------------------------------- the timer object

\* typedef uint32 libembd_timer_duration_ms.  Durations are kept 12 bits wide:
\* TLC's integers stop short of 2^32, and 2^12 - 1 is, like 2^32 - 1, odd and
\* a multiple of 5, which is what decides whether a tick period can bring
\* time_elapsed up to LIBEMBD_TIMER_DURATION_INF.
DurationRange == 4096

LIBEMBD_TIMER_DURATION_INF == DurationRange - 1

LIBEMBD_TIMER_PERIOD_5_MS == 5
LIBEMBD_TIMER_PERIOD_10_MS == 10
LIBEMBD_TIMER_PERIOD_20_MS == 20
LIBEMBD_TIMER_PERIOD_100_MS == 100
LIBEMBD_TIMER_PERIOD_1000_MS == 1000

Periods == {LIBEMBD_TIMER_PERIOD_5_MS, LIBEMBD_TIMER_PERIOD_10_MS,
            LIBEMBD_TIMER_PERIOD_20_MS, LIBEMBD_TIMER_PERIOD_100_MS,
            LIBEMBD_TIMER_PERIOD_1000_MS}

TIMER_STATE_UNINIT == "UNINIT"
TIMER_STATE_INIT == "INIT"
TIMER_STATE_ACTIVE == "ACTIVE"

TIMER_TYPE_ONE_SHOT == "ONE_SHOT"
TIMER_TYPE_PERIODIC == "PERIODIC"
TIMER_TYPE_LAST_DO_NOT_USE == "LAST_DO_NOT_USE"

\* A LibEmbd_Timer_t of static storage duration before libembd_make_timer:
\* all fields zero, so timer_state is TIMER_STATE_UNINIT; no API called yet.
ZeroTimer ==
    /\ timer = [timer_state |-> TIMER_STATE_UNINIT, type |-> TIMER_TYPE_ONE_SHOT,
                interval |-> 0, time_elapsed |-> 0, on_expiry |-> "null"]
    /\ last = "none"
    /\ prior = TIMER_STATE_UNINIT
    /\ result = "none"
    /\ invoked = FALSE
    /\ ticks = 0
    /\ fired = 0
    /\ clean = FALSE

\* ------------------------------------------------- the marshalling contexts

\* the length of the buffer, and the capacity the contexts are made with
BufferLen == 5

\* the values of a byte: uint8 is kept one bit wide
ByteRange == 2

Bytes == 0..(ByteRange - 1)

\* no skip yet, nothing put and nothing got
ZeroTrip ==
    /\ skipped = [ctx |-> "none", from |-> 0, num_bytes |-> 0]
    /\ sent = <<>>
    /\ got = <<>>

\* A serializer and a deserializer made over a zeroed buffer, on a
\* little-endian host; nothing read yet.
ZeroMarshal ==
    /\ host_little = TRUE
    /\ buffer = [i \in 1..BufferLen |-> 0]
    /\ ser = [capacity |-> BufferLen, position |-> 0]
    /\ deser = [capacity |-> BufferLen, position |-> 0]
    /\ out = <<>>
    /\ ZeroTrip

\* the objects the atomic operations do not touch
InitObjects ==
    /\ ZeroTimer
    /\ ZeroMarshal
    /\ tick_period = LIBEMBD_TIMER_PERIOD_5_MS

\* thread-local state before any call
InitThreads ==
    /\ monitor = [t \in Threads |-> FALSE]
    /\ pc = [t \in Threads |-> "idle"]
    /\ op = [t \in Threads |-> "none"]
    /\ expected = [t \in Threads |-> 0]
    /\ desired = [t \in Threads |-> 0]
    /\ old_val = [t \in Threads |-> 0]
    /\ success = [t \in Threads |-> FALSE]
    /\ iteration = [t \in Threads |-> 0]
    /\ ret = [t \in Threads |-> "none"]
    /\ owner = [t \in Threads |-> FALSE]
    /\ failed = [t \in Threads |-> 0]
    /\ changed = [t \in Threads |-> FALSE]
    /\ held = [t \in Threads |-> FALSE]
    /\ quiet = [t \in Threads |-> FALSE]
    /\ match = [t \in Threads |-> FALSE]
    /\ sc_parity = [t \in Threads |-> 0]
    /\ events = [t \in Threads |-> <<>>]
    /\ val = [t \in Threads |-> 0]
    /\ mo = [t \in Threads |-> "default"]
    /\ payload = 0
    /\ inflight = [t \in Threads |-> <<>>]
    /\ data = [t \in Threads |-> 0]

\* A LibEmbd_Spinlock_t object before libembd_timed_spinlock_init: its memory is
\* indeterminate (0 for an object of static storage duration).
InitLock ==
    /\ single_core \in BOOLEAN
    /\ probe = FALSE
    /\ cell \in Vals
    /\ max_iterations = 0
    /\ inited = FALSE
    /\ InitThreads
    /\ InitObjects

\* ------------------------------------------------------- barrier mapping

MemoryOrders == {"relaxed", "consume", "acquire", "release", "acq_rel", "seq_cst"}

\* __LIBEMBD_DMB_SYSTEM(): DMB ISH in the single-core build, DMB SY otherwise
DmbSystem == IF single_core THEN "DMB_ISH" ELSE "DMB_SY"

\* __LIBEMBD_DMB_STORE(): DMB ISHST in the single-core build, DMB ST otherwise
DmbStore == IF single_core THEN "DMB_ISHST" ELSE "DMB_ST"

\* LIBEMBD_COMPILER_BARRIER()
CompilerBarrier == "CB"

\* __libembd_memory_barrier_default_internal(): what it issues, in order
libembd_memory_barrier_default_internal == <<DmbSystem, CompilerBarrier>>

\* A barrier function whose relaxed case issues nothing at all.
libembd_memory_barrier_internal_BareRelaxed(m) ==
    CASE m = "relaxed" -> <<>>
      [] m = "consume" -> <<DmbSystem, CompilerBarrier>>
      [] m = "acquire" -> <<DmbSystem, CompilerBarrier>>
      [] m = "release" -> <<DmbStore, CompilerBarrier>>
      [] m = "acq_rel" -> <<DmbSystem, CompilerBarrier>>
      [] m = "seq_cst" -> <<DmbSystem, CompilerBarrier>>

\* __libembd_memory_barrier_internal(m): what it issues, in order
libembd_memory_barrier_internal(m) ==
    CASE m = "relaxed" -> <<CompilerBarrier>>
      [] m = "consume" -> <<DmbSystem, CompilerBarrier>>
      [] m = "acquire" -> <<DmbSystem, CompilerBarrier>>
      [] m = "release" -> <<DmbStore, CompilerBarrier>>
      [] m = "acq_rel" -> <<DmbSystem, CompilerBarrier>>
      [] m = "seq_cst" -> <<DmbSystem, CompilerBarrier>>

\* ------------------------------------------------- barriers around accesses

\* The body of a load: the barrier, then LIBEMBD_ATOMIC_LOAD_EXCLUSIVE ("LDX").
LoadEvents(barrier) == barrier \o <<"LDX">>

\* The body of a store: LIBEMBD_ATOMIC_STORE_EXCLUSIVE ("STX"), then the barrier.
StoreEvents(barrier) == <<"STX">> \o barrier

\* The head of a compare-exchange: the acquire barrier, then the
\* load-exclusive.
CompareEvents == LoadEvents(libembd_memory_barrier_internal("acquire"))

\* A store-exclusive followed by the release barrier whether it succeeded or
\* not.
ExchangeEvents_AlwaysRelease(ok) ==
    StoreEvents(libembd_memory_barrier_internal("release"))

\* One store-exclusive of a compare-exchange and the barrier after it: release
\* if the store succeeded (ok), relaxed if it failed.  A strong call that went
\* round its loop shows its last store-exclusive only.
ExchangeEvents(ok) ==
    StoreEvents(libembd_memory_barrier_internal(
                    IF ok THEN "release" ELSE "relaxed"))

\* What events becomes when the call of t has issued ev so far: recorded only
\* while the stream of the compare-exchange calls is being watched.
Record(t, ev) == IF probe THEN [events EXCEPT ![t] = ev] ELSE events

\* ------------------------------------------------------- spurious failure

\* Core t loses its reservation between its load-exclusive and its
\* store-exclusive although nobody wrote the cell (an exception entry, a CLREX
\* of a context switch, an eviction).  Multi-core build only: the single-core
\* build takes no reservation.  Outside that window no operation modelled here
\* reads the reservation before setting it again.
LoseReservation(t) ==
    /\ ~single_core
    /\ monitor[t]
    /\ pc[t] \in {"weak_store", "strong_store"}
    /\ monitor' = ClearExclusiveMonitor(t)
    /\ quiet' = [quiet EXCEPT ![t] = FALSE]
    /\ match' = [match EXCEPT ![t] = FALSE]
    /\ UNCHANGED <<build, rest, cell, lock, pc, op, locals, ret, owner, failed,
                   changed, held, sc_parity>>
    /\ UNCHANGED <<order, plain>>

\* ------------------------------------------- libembd_atomic_compare_exchange_weak

\* Whether the store-exclusive of a compare-exchange counts as a success:
\* LIBEMBD_ATOMIC_STORE_EXCLUSIVE(desired, &ptr->value) == 0
StoreSucceeded(t, v) == StoreExclusiveStatus(t, v) = 0

\* The return of compare_exchange_weak with result b.  Inside try_acquire the
\* result goes to the loop (pc "weak_ret", success); any other caller is back
\* in its own code (pc "idle", ret), and old_val and desired end with the call.
Bool(b) == IF b THEN "TRUE" ELSE "FALSE"
WeakReturnPc(t) ==
    [pc EXCEPT ![t] = IF op[t] = "acquire" THEN "weak_ret" ELSE "idle"]
WeakReturnSuccess(t, b) ==
    IF op[t] = "acquire" THEN [success EXCEPT ![t] = b] ELSE success
WeakReturnRet(t, b) ==
    IF op[t] = "acquire" THEN ret ELSE [ret EXCEPT ![t] = Bool(b)]
WeakReturnOldVal(t, v) ==
    [old_val EXCEPT ![t] = IF op[t] = "acquire" THEN v ELSE 0]
WeakReturnDesired(t) ==
    IF op[t] = "acquire" THEN desired ELSE [desired EXCEPT ![t] = 0]

\* Barrier, load-exclusive, compare.  A mismatch writes the value read into
\* *expected and returns FALSE; a match goes on to the store-exclusive.
libembd_atomic_compare_exchange_weak_load(t) ==
    /\ pc[t] = "weak_load"
    /\ monitor' = LoadExclusiveMonitor(t)
    /\ IF LoadExclusiveValue # expected[t]
       THEN /\ expected' = [expected EXCEPT ![t] = LoadExclusiveValue]
            /\ old_val' = WeakReturnOldVal(t, LoadExclusiveValue)
            /\ success' = WeakReturnSuccess(t, FALSE)
            /\ ret' = WeakReturnRet(t, FALSE)
            /\ desired' = WeakReturnDesired(t)
            /\ pc' = WeakReturnPc(t)
       ELSE /\ old_val' = [old_val EXCEPT ![t] = LoadExclusiveValue]
            /\ pc' = [pc EXCEPT ![t] = "weak_store"]
            /\ UNCHANGED <<expected, success, ret, desired>>
    /\ quiet' = Disturbed(t)
    /\ match' = DisturbedMatch(t)
    /\ UNCHANGED <<build, rest, cell, lock, op, iteration, owner,
                   failed, changed, held, sc_parity>>
    /\ events' = Record(t, CompareEvents)
    /\ UNCHANGED <<val, mo, plain>>

\* One store-exclusive of desired, the barrier, return success.
libembd_atomic_compare_exchange_weak_store(t) ==
    /\ pc[t] = "weak_store"
    /\ cell' = StoreExclusiveCell(t, desired[t])
    /\ monitor' = StoreExclusiveMonitor(t)
    /\ success' = WeakReturnSuccess(t, StoreSucceeded(t, desired[t]))
    /\ ret' = WeakReturnRet(t, StoreSucceeded(t, desired[t]))
    /\ old_val' = WeakReturnOldVal(t, old_val[t])
    /\ desired' = WeakReturnDesired(t)
    /\ pc' = WeakReturnPc(t)
    /\ owner' = [owner EXCEPT ![t] =
                    @ \/ (op[t] = "acquire" /\ StoreSucceeded(t, desired[t]))]
    /\ changed' = [changed EXCEPT ![t] = @ \/ (cell' # cell)]
    /\ quiet' = Disturbed(t)
    /\ match' = DisturbedMatch(t)
    /\ UNCHANGED <<build, rest, lock, op, expected, iteration, failed, held,
                   sc_parity>>
    /\ events' = Record(t, events[t]
                            \o ExchangeEvents(StoreSucceeded(t, desired[t])))
    /\ UNCHANGED <<val, mo, plain>>

\* A caller other than the spinlock enters
\* libembd_atomic_compare_exchange_weak(ptr, &e, d).
libembd_atomic_compare_exchange_weak_call(t, e, d) ==
    /\ pc[t] = "idle"
    /\ pc' = [pc EXCEPT ![t] = "weak_load"]
    /\ op' = [op EXCEPT ![t] = "weak"]
    /\ expected' = [expected EXCEPT ![t] = e]
    /\ desired' = [desired EXCEPT ![t] = d]
    /\ ret' = [ret EXCEPT ![t] = "none"]
    /\ changed' = [changed EXCEPT ![t] = FALSE]
    /\ quiet' = [quiet EXCEPT ![t] = TRUE]
    /\ match' = [match EXCEPT ![t] = (cell = e)]
    /\ UNCHANGED <<build, rest, hw, lock, old_val, success, iteration, owner,
                   failed, held, sc_parity>>
    /\ events' = Record(t, <<>>)
    /\ UNCHANGED <<val, mo, plain>>

\* One step of thread t inside a call of compare_exchange_weak
WeakStep(t) ==
    \/ libembd_atomic_compare_exchange_weak_load(t)
    \/ libembd_atomic_compare_exchange_weak_store(t)

\* ----------------------------------------- libembd_atomic_compare_exchange_strong

\* A caller enters libembd_atomic_compare_exchange_strong(ptr, &e, d).
libembd_atomic_compare_exchange_strong_call(t, e, d) ==
    /\ pc[t] = "idle"
    /\ pc' = [pc EXCEPT ![t] = "strong_load"]
    /\ op' = [op EXCEPT ![t] = "strong"]
    /\ expected' = [expected EXCEPT ![t] = e]
    /\ desired' = [desired EXCEPT ![t] = d]
    /\ ret' = [ret EXCEPT ![t] = "none"]
    /\ changed' = [changed EXCEPT ![t] = FALSE]
    /\ quiet' = [quiet EXCEPT ![t] = TRUE]
    /\ match' = [match EXCEPT ![t] = (cell = e)]
    /\ sc_parity' = [sc_parity EXCEPT ![t] = 0]
    /\ UNCHANGED <<build, rest, hw, lock, old_val, success, iteration, owner,
                   failed, held>>
    /\ events' = Record(t, <<>>)
    /\ UNCHANGED <<val, mo, plain>>

\* The barrier and the one load-exclusive before the loop, then the first
\* compare of the loop: a mismatch writes old_val into *expected, clears the
\* monitor and returns FALSE.
libembd_atomic_compare_exchange_strong_load(t) ==
    /\ pc[t] = "strong_load"
    /\ IF LoadExclusiveValue # expected[t]
       THEN /\ expected' = [expected EXCEPT ![t] = LoadExclusiveValue]
            /\ monitor' = ClearExclusiveMonitor(t)
            /\ ret' = [ret EXCEPT ![t] = "FALSE"]
            /\ pc' = [pc EXCEPT ![t] = "idle"]
            /\ UNCHANGED old_val
       ELSE /\ monitor' = LoadExclusiveMonitor(t)
            /\ old_val' = [old_val EXCEPT ![t] = LoadExclusiveValue]
            /\ pc' = [pc EXCEPT ![t] = "strong_store"]
            /\ UNCHANGED <<expected, ret>>
    /\ quiet' = Disturbed(t)
    /\ match' = DisturbedMatch(t)
    /\ UNCHANGED <<build, rest, cell, lock, op, desired, success, iteration,
                   owner, failed, changed, held, sc_parity>>
    /\ events' = Record(t, CompareEvents
                            \o (IF LoadExclusiveValue # expected[t]
                                THEN <<"CLREX">> ELSE <<>>))
    /\ UNCHANGED <<val, mo, plain>>

\* A do-while that gives up after a failed store-exclusive and returns FALSE.
StrongRetry_GiveUp(t) == "FALSE"

\* What the do-while does after a failed store-exclusive: it goes back to the
\* compare of old_val, which was loaded once before the loop, with *expected.
\* "FALSE": the compare fails and the call returns FALSE; "store": the compare
\* holds and the store-exclusive is attempted again.
StrongRetry(t) == IF old_val[t] # expected[t] THEN "FALSE" ELSE "store"

\* One store-exclusive of the loop and what follows it: success returns TRUE,
\* failure goes round the loop.
libembd_atomic_compare_exchange_strong_store(t) ==
    /\ pc[t] = "strong_store"
    /\ cell' = StoreExclusiveCell(t, desired[t])
    /\ changed' = [changed EXCEPT ![t] = @ \/ (cell' # cell)]
    /\ IF StoreSucceeded(t, desired[t])
       THEN /\ monitor' = StoreExclusiveMonitor(t)
            /\ ret' = [ret EXCEPT ![t] = "TRUE"]
            /\ pc' = [pc EXCEPT ![t] = "idle"]
            /\ old_val' = [old_val EXCEPT ![t] = 0]
            /\ UNCHANGED <<expected, sc_parity>>
       ELSE /\ sc_parity' = [sc_parity EXCEPT ![t] = 1 - @]
            /\ IF StrongRetry(t) = "FALSE"
               THEN /\ expected' = [expected EXCEPT ![t] = old_val[t]]
                    /\ monitor' = ClearExclusiveMonitor(t)
                    /\ ret' = [ret EXCEPT ![t] = "FALSE"]
                    /\ pc' = [pc EXCEPT ![t] = "idle"]
                    /\ old_val' = [old_val EXCEPT ![t] = 0]
               ELSE /\ monitor' = StoreExclusiveMonitor(t)
                    /\ UNCHANGED <<expected, ret, pc, old_val>>
    /\ quiet' = Disturbed(t)
    /\ match' = DisturbedMatch(t)
    /\ UNCHANGED <<build, rest, lock, op, desired, success, iteration, owner,
                   failed, held>>
    /\ events' = Record(t, CompareEvents
                            \o ExchangeEvents(StoreSucceeded(t, desired[t]))
                            \o (IF ~StoreSucceeded(t, desired[t])
                                   /\ StrongRetry(t) = "FALSE"
                                THEN <<"CLREX">> ELSE <<>>))
    /\ UNCHANGED <<val, mo, plain>>

\* One step of thread t inside a call of compare_exchange_strong
StrongStep(t) ==
    \/ libembd_atomic_compare_exchange_strong_load(t)
    \/ libembd_atomic_compare_exchange_strong_store(t)

\* --------------------------------------------------------- load and store

\* A load by t with the barrier given: the load-exclusive takes the
\* reservation and the value read is returned.
Load(t, name, m, barrier) ==
    /\ pc[t] = "idle"
    /\ op' = [op EXCEPT ![t] = name]
    /\ mo' = [mo EXCEPT ![t] = m]
    /\ events' = [events EXCEPT ![t] = LoadEvents(barrier)]
    /\ val' = [val EXCEPT ![t] = LoadExclusiveValue]
    /\ monitor' = LoadExclusiveMonitor(t)
    /\ ret' = [ret EXCEPT ![t] = "none"]
    /\ quiet' = Disturbed(t)
    /\ match' = DisturbedMatch(t)
    /\ UNCHANGED <<build, rest, cell, lock, pc, locals, owner, failed, changed,
                   held, sc_parity, plain>>

\* A store of v by t with the barrier given: the status of the
\* store-exclusive is dropped.
Store(t, v, name, m, barrier) ==
    /\ pc[t] = "idle"
    /\ op' = [op EXCEPT ![t] = name]
    /\ mo' = [mo EXCEPT ![t] = m]
    /\ events' = [events EXCEPT ![t] = StoreEvents(barrier)]
    /\ val' = [val EXCEPT ![t] = v]
    /\ cell' = StoreExclusiveCell(t, v)
    /\ monitor' = StoreExclusiveMonitor(t)
    /\ ret' = [ret EXCEPT ![t] = "none"]
    /\ quiet' = Disturbed(t)
    /\ match' = DisturbedMatch(t)
    /\ UNCHANGED <<build, rest, lock, pc, locals, owner, failed, changed,
                   held, sc_parity, plain>>

libembd_atomic_load(t) ==
    Load(t, "load", "default", libembd_memory_barrier_default_internal)

libembd_atomic_store(t, v) ==
    Store(t, v, "store", "default", libembd_memory_barrier_default_internal)

libembd_atomic_load_explicit(t, m) ==
    Load(t, "load_explicit", m, libembd_memory_barrier_internal(m))

libembd_atomic_store_explicit(t, v, m) ==
    Store(t, v, "store_explicit", m, libembd_memory_barrier_internal(m))

\* ------------------------------------------------------------------ spinlock

\* libembd_timed_spinlock_init(spinlock, k) by thread t
libembd_timed_spinlock_init(t, k) ==
    /\ ~inited
    /\ cell' = StoreExclusiveCell(t, 0)
    /\ monitor' = StoreExclusiveMonitor(t)
    /\ max_iterations' = k
    /\ inited' = TRUE
    /\ UNCHANGED <<build, rest, pc, op, locals, ret, ghost>>
    /\ UNCHANGED <<order, plain>>

\* Some other thread is between a try_acquire that returned TRUE and its release.
HeldByOther(t) == \E u \in Threads \ {t} : owner[u] /\ pc[u] = "idle"

\* Entry of libembd_timed_spinlock_acquire: expected = 0, iteration = 0, and the
\* first compare-exchange is called with desired 1.
libembd_timed_spinlock_acquire_call(t) ==
    /\ inited
    /\ pc[t] = "idle"
    /\ ~owner[t]
    /\ pc' = [pc EXCEPT ![t] = "weak_load"]
    /\ op' = [op EXCEPT ![t] = "acquire"]
    /\ expected' = [expected EXCEPT ![t] = 0]
    /\ desired' = [desired EXCEPT ![t] = 1]
    /\ iteration' = [iteration EXCEPT ![t] = 0]
    /\ ret' = [ret EXCEPT ![t] = "none"]
    /\ failed' = [failed EXCEPT ![t] = 0]
    /\ changed' = [changed EXCEPT ![t] = FALSE]
    /\ held' = [held EXCEPT ![t] = HeldByOther(t)]
    /\ quiet' = [quiet EXCEPT ![t] = TRUE]
    /\ match' = [match EXCEPT ![t] = (cell = 0)]
    /\ UNCHANGED <<build, rest, hw, lock, old_val, success, owner, sc_parity>>
    /\ events' = Record(t, <<>>)
    /\ UNCHANGED <<val, mo, plain>>

\* The exit test written with a pre-increment, ++iteration == max_iterations:
\* with max_iterations = 0 it is never true.
SpinExhausted_PreIncrement(i, max) == i + 1 = max

\* The exit test of the spin loop after a failed attempt: iteration++ == max_iterations
SpinExhausted(i, max) == i = max

\* The body of the for(;;) after the compare-exchange returned: TRUE returns
\* TRUE; FALSE returns FALSE when the bound is reached and tries again otherwise.
\* expected is not assigned again.
libembd_timed_spinlock_acquire_loop(t) ==
    /\ pc[t] = "weak_ret"
    /\ op[t] = "acquire"
    /\ IF success[t]
       THEN /\ ret' = [ret EXCEPT ![t] = "TRUE"]
            /\ pc' = [pc EXCEPT ![t] = "idle"]
            /\ expected' = [expected EXCEPT ![t] = 0]
            /\ iteration' = [iteration EXCEPT ![t] = 0]
            /\ UNCHANGED failed
       ELSE /\ failed' = [failed EXCEPT ![t] = Min(@ + 1, FailCap)]
            /\ IF SpinExhausted(iteration[t], max_iterations)
               THEN /\ ret' = [ret EXCEPT ![t] = "FALSE"]
                    /\ pc' = [pc EXCEPT ![t] = "idle"]
                    /\ expected' = [expected EXCEPT ![t] = 0]
                    /\ iteration' = [iteration EXCEPT ![t] = 0]
               ELSE /\ iteration' = [iteration EXCEPT ![t] = Min(@ + 1, FailCap)]
                    /\ pc' = [pc EXCEPT ![t] = "weak_load"]
                    /\ UNCHANGED <<ret, expected>>
    /\ old_val' = [old_val EXCEPT ![t] = 0]
    /\ success' = [success EXCEPT ![t] = FALSE]
    /\ UNCHANGED <<build, rest, hw, lock, op, desired, owner, changed, held,
                   quiet, match, sc_parity>>
    /\ UNCHANGED <<order, plain>>

\* libembd_timed_spinlock_release by the thread whose try_acquire returned TRUE:
\* libembd_atomic_store_explicit_uint8(&atomic_flag, 0, release), a store-exclusive
\* whose status is dropped, then the barrier.
libembd_timed_spinlock_release(t) ==
    /\ inited
    /\ pc[t] = "idle"
    /\ owner[t]
    /\ cell' = StoreExclusiveCell(t, 0)
    /\ monitor' = StoreExclusiveMonitor(t)
    /\ owner' = [owner EXCEPT ![t] = FALSE]
    /\ op' = [op EXCEPT ![t] = "release"]
    /\ ret' = [ret EXCEPT ![t] = "none"]
    /\ failed' = [failed EXCEPT ![t] = 0]
    /\ changed' = [changed EXCEPT ![t] = FALSE]
    /\ held' = [u \in Threads |-> FALSE]
    /\ quiet' = [u \in Threads |-> FALSE]
    /\ match' = [u \in Threads |-> FALSE]
    /\ UNCHANGED <<build, rest, lock, pc, locals, sc_parity>>
    /\ UNCHANGED <<order, plain>>

\* One step of thread t inside a call of try_acquire
AcquireStep(t) ==
    \/ libembd_atomic_compare_exchange_weak_load(t)
    \/ libembd_atomic_compare_exchange_weak_store(t)
    \/ libembd_timed_spinlock_acquire_loop(t)

NextLock ==
    \/ \E t \in Threads, k \in Iters : libembd_timed_spinlock_init(t, k)
    \/ \E t \in Threads : libembd_timed_spinlock_acquire_call(t)
    \/ \E t \in Threads : AcquireStep(t)
    \/ \E t \in Threads : libembd_timed_spinlock_release(t)
    \/ \E t \in Threads : LoseReservation(t)

\* Threads sharing one spinlock, each releasing only what it acquired.
SpecLock == InitLock /\ [][NextLock]_vars

\* ------------------------------------------------------- spinlock: claims

\* the threads between their successful exchange and their release store
Owners == {t \in Threads : owner[t]}

\* the threads between a try_acquire that returned TRUE and the matching release
Holders == {t \in Threads : owner[t] /\ pc[t] = "idle"}

\* t is inside a call of try_acquire
InAcquire(t) == op[t] = "acquire" /\ pc[t] # "idle"

\* the last thing t did was return from try_acquire
Returned(t) == op[t] = "acquire" /\ pc[t] = "idle" /\ ret[t] # "none"

\* C1: mutual exclusion: at most one thread at a time is between a try_acquire
\* that returned TRUE and its matching release.
C1_MutualExclusion == Cardinality(Holders) <= 1

\* C2: a try_acquire on a lock that another thread holds, and does not release
\* during the call, returns FALSE, whatever max_iterations is.
C2_HeldLockRefused ==
    \A t \in Threads : (Returned(t) /\ held[t]) => ret[t] = "FALSE"

\* C3: a try_acquire that returns FALSE has performed at most max_iterations
\* failed compare-exchange attempts.
C3_AtMostKFailures ==
    \A t \in Threads :
        (Returned(t) /\ ret[t] = "FALSE") => failed[t] <= max_iterations

\* C4: on an initialized, unlocked spinlock with no concurrent access,
\* try_acquire returns TRUE on its first exchange attempt and leaves the flag
\* at 1, in the single-core and in the multi-core build.
C4_UncontendedAcquire ==
    \A t \in Threads :
        (Returned(t) /\ quiet[t] /\ match[t]) =>
            (ret[t] = "TRUE" /\ failed[t] = 0 /\ cell = 1)

\* C5: a try_acquire that returns FALSE has made no write that changed the flag.
C5_FailedAcquireWritesNothing ==
    \A t \in Threads : (Returned(t) /\ ret[t] = "FALSE") => ~changed[t]

\* Steps left, at most, before the call of t returns: three per attempt that
\* the bound still allows, and the place inside the current attempt.
Rank(t) ==
    IF pc[t] = "idle" THEN 0
    ELSE 3 * (max_iterations - iteration[t])
           + (CASE pc[t] = "weak_load" -> 3
                [] pc[t] = "weak_store" -> 2
                [] OTHER -> 1)

\* C6: every call of try_acquire returns after finitely many exchange attempts,
\* whatever the other threads do and however many store-conditionals fail
\* spuriously: inside a call the thread can always take its next step, every
\* step of the thread lowers Rank, no step of anyone else raises it, and Rank
\* stays positive until the return (so at most max_iterations + 1 attempts).
C6_AcquireTerminates ==
    /\ [](\A t \in Threads :
            InAcquire(t) => (Rank(t) >= 1 /\ ENABLED AcquireStep(t)))
    /\ [][\A t \in Threads :
            /\ AcquireStep(t) => Rank(t)' < Rank(t)
            /\ (InAcquire(t) /\ InAcquire(t)') => Rank(t)' <= Rank(t)]_vars

\* C6 witness: a call spun through its whole bound against a held lock, lost a
\* reservation on the way or not, and returned FALSE.
C6_Witness ==
    \E t \in Threads :
        /\ Returned(t) /\ ret[t] = "FALSE"
        /\ max_iterations >= 1
        /\ failed[t] = max_iterations + 1
        /\ \E u \in Threads \ {t} : owner[u]

\* C7: the lock cycles Unlocked -> Locked -> Unlocked: the release of a thread
\* whose try_acquire returned TRUE leaves the flag at 0, and an uncontended
\* try_acquire on the unlocked flag returns TRUE, every time.
C7_LockCycles ==
    /\ [][\A t \in Threads : (owner[t] /\ ~owner'[t]) => cell' = 0]_vars
    /\ [](\A t \in Threads :
            (Returned(t) /\ quiet[t] /\ match[t]) => ret[t] = "TRUE")

\* C8: once the lock is initialized, the flag is 1 iff exactly one thread owns
\* the lock and 0 iff none does.
C8_FlagIsOwnership ==
    inited => /\ (cell = 1 <=> Cardinality(Owners) = 1)
              /\ (cell = 0 <=> Owners = {})

\* ------------------------------------------------ compare-exchange: the race

\* A cell made with LIBEMBD_ATOMIC_VAR_INIT(0); no spinlock.
InitRace ==
    /\ single_core \in BOOLEAN
    /\ probe = FALSE
    /\ cell = 0
    /\ max_iterations = 0
    /\ inited = FALSE
    /\ InitThreads
    /\ InitObjects

\* The desired values thread t may pass: not 0, and no other thread's.
DesiredOf(t) == {t, t + NumThreads}

\* Thread t makes its one call: compare_exchange_strong(&cell, &expected, d)
\* with expected = 0.
RaceCall(t, d) ==
    /\ op[t] = "none"
    /\ libembd_atomic_compare_exchange_strong_call(t, 0, d)

NextRace ==
    \/ \E t \in Threads : \E d \in DesiredOf(t) : RaceCall(t, d)
    \/ \E t \in Threads : StrongStep(t)

\* Up to NumThreads calls of compare_exchange_strong racing on one cell.
SpecRace == InitRace /\ [][NextRace]_vars

\* Each caller runs on: a call in progress takes its next step.
FairSpecRace == SpecRace /\ \A t \in Threads : WF_vars(StrongStep(t))

\* the threads that have called, and those whose call has returned
Callers == {t \in Threads : op[t] = "strong"}
InStrong(t) == op[t] = "strong" /\ pc[t] # "idle"
ReturnedStrong(t) == op[t] = "strong" /\ pc[t] = "idle"

\* C9: of the concurrent compare_exchange_strong calls on a cell that holds 0,
\* each with *expected = 0 and its own non-zero desired value, every call
\* returns, exactly one returns TRUE, the cell then holds that call's desired
\* value, and every other call returns FALSE with *expected set to that value.
C9_RaceHasOneWinner ==
    /\ \A t \in Threads : InStrong(t) ~> ReturnedStrong(t)
    /\ []((Callers # {} /\ \A t \in Callers : ReturnedStrong(t)) =>
            \E w \in Callers :
                /\ ret[w] = "TRUE"
                /\ cell = desired[w]
                /\ \A u \in Callers \ {w} :
                      ret[u] = "FALSE" /\ expected[u] = desired[w])

\* ------------------------------------------- compare-exchange: any calls

\* A cell holding any value; no spinlock.
InitCas ==
    /\ single_core \in BOOLEAN
    /\ probe = FALSE
    /\ cell \in Vals
    /\ max_iterations = 0
    /\ inited = FALSE
    /\ InitThreads
    /\ InitObjects

NextCas ==
    \/ \E t \in Threads, e \in Vals, d \in Vals :
          libembd_atomic_compare_exchange_strong_call(t, e, d)
    \/ \E t \in Threads : StrongStep(t)
    \/ \E t \in Threads : LoseReservation(t)

\* Threads calling compare_exchange_strong on one cell, any arguments, any
\* number of times, with spurious losses of the reservation.
SpecCas == InitCas /\ [][NextCas]_vars

\* C10: on a cell holding v with no concurrent access, compare_exchange_strong
\* (expected = v, desired = d) returns TRUE and the cell then holds d (the call
\* stores after its load and returns after its store); a call whose *expected
\* differs from the cell returns FALSE, leaves the cell and sets *expected to
\* the cell's value.
C10_SoloStrongExchange ==
    /\ [][\A t \in Threads :
            /\ (quiet[t] /\ match[t]
                  /\ libembd_atomic_compare_exchange_strong_load(t))
               => pc'[t] = "strong_store"
            /\ (quiet[t] /\ match[t]
                  /\ libembd_atomic_compare_exchange_strong_store(t))
               => (pc'[t] = "idle" /\ ret'[t] = "TRUE" /\ cell' = desired[t])]_vars
    /\ [](\A t \in Threads :
            (ReturnedStrong(t) /\ quiet[t] /\ ~match[t]) =>
                (ret[t] = "FALSE" /\ ~changed[t] /\ expected[t] = cell))

\* C11: compare_exchange_strong returns FALSE only on a genuine mismatch: the
\* step that returns FALSE is the one that read the cell, the value read
\* differs from *expected as it was at entry, *expected becomes the value
\* read, and the call has written nothing to the cell.
C11_FalseOnlyOnMismatch ==
    /\ [][\A t \in Threads :
            (InStrong(t) /\ ret'[t] = "FALSE") =>
                /\ pc[t] = "strong_load"
                /\ cell # expected[t]
                /\ expected'[t] = cell
                /\ cell' = cell]_vars
    /\ [](\A t \in Threads :
            (ReturnedStrong(t) /\ ret[t] = "FALSE") =>
                (~changed[t] /\ sc_parity[t] = 0))

\* C11 witness: a call returned FALSE after another thread's exchange had
\* succeeded on the cell.
C11_Witness ==
    \E t \in Threads :
        /\ ReturnedStrong(t) /\ ret[t] = "FALSE"
        /\ \E u \in Threads \ {t} : ReturnedStrong(u) /\ ret[u] = "TRUE"

\* ------------------------------- compare-exchange: spurious failure injected

\* The multi-core build (the single-core build takes no reservation to lose),
\* a cell holding any value.
InitSpurious ==
    /\ single_core = FALSE
    /\ probe = FALSE
    /\ cell \in Vals
    /\ max_iterations = 0
    /\ inited = FALSE
    /\ InitThreads
    /\ InitObjects

\* A call of compare_exchange_strong made while no other call is in progress.
SoloCall(t, e, d) ==
    /\ \A u \in Threads : pc[u] = "idle"
    /\ libembd_atomic_compare_exchange_strong_call(t, e, d)

\* the reservation of some core is lost spuriously
Injection == \E t \in Threads : LoseReservation(t)

NextSpurious ==
    \/ \E t \in Threads, e \in Vals, d \in Vals : SoloCall(t, e, d)
    \/ \E t \in Threads : StrongStep(t)
    \/ Injection

\* One call of compare_exchange_strong at a time, its reservation lost at will.
SpecSpurious == InitSpurious /\ [][NextSpurious]_vars

\* The caller runs on: a call in progress takes its next step.
FairSpecSpurious == SpecSpurious /\ \A t \in Threads : WF_vars(StrongStep(t))

\* C12: with spurious failures injected, if only finitely many losses of the
\* reservation occur, a compare_exchange_strong call whose *expected equals the
\* cell's value (and which no other call disturbs) eventually returns TRUE
\* with the cell holding desired.
C12_SpuriousFailureRetried ==
    (<>[][~Injection]_vars) =>
        \A t \in Threads :
            (pc[t] = "strong_load" /\ cell = expected[t])
                ~> (ReturnedStrong(t) /\ ret[t] = "TRUE" /\ cell = desired[t])

\* ------------------------------------------ compare-exchange weak: any calls

NextWeak ==
    \/ \E t \in Threads, e \in Vals, d \in Vals :
          libembd_atomic_compare_exchange_weak_call(t, e, d)
    \/ \E t \in Threads : WeakStep(t)
    \/ \E t \in Threads : LoseReservation(t)

\* Threads calling compare_exchange_weak on one cell, any arguments, any number
\* of times, with spurious losses of the reservation.
SpecWeak == InitCas /\ [][NextWeak]_vars

InWeak(t) == op[t] = "weak" /\ pc[t] # "idle"
ReturnedWeak(t) == op[t] = "weak" /\ pc[t] = "idle"

\* C13: when compare_exchange_weak reads a value different from *expected, it
\* writes the value read into *expected and returns FALSE at once: it makes no
\* store-exclusive and leaves the cell as it is.
C13_WeakMismatch ==
    [][\A t \in Threads :
          (InWeak(t) /\ pc[t] = "weak_load" /\ pc'[t] # "weak_load"
               /\ cell # expected[t]) =>
              /\ expected'[t] = cell
              /\ cell' = cell
              /\ pc'[t] = "idle"
              /\ ret'[t] = "FALSE"
              /\ ~changed'[t]]_vars

\* C13 witness: a call that found another value than *expected has returned
\* FALSE with that value in *expected.
C13_Witness ==
    \E t \in Threads :
        /\ ReturnedWeak(t) /\ ret[t] = "FALSE"
        /\ quiet[t] /\ ~match[t]
        /\ expected[t] = cell /\ ~changed[t]

\* C14: when compare_exchange_weak reads a value equal to *expected, it makes
\* one store-exclusive of desired and returns; if the store-exclusive fails the
\* call returns FALSE with the cell and *expected unchanged, if it succeeds
\* the call returns TRUE with the cell holding desired.
C14_WeakOneAttempt ==
    [][\A t \in Threads :
          (InWeak(t) /\ pc[t] = "weak_store" /\ pc'[t] # "weak_store") =>
              /\ pc'[t] = "idle"
              /\ IF ret'[t] = "TRUE"
                 THEN cell' = desired[t]
                 ELSE cell' = cell /\ expected'[t] = expected[t]]_vars

\* --------------------------- compare-exchange on one core with interrupts

\* The single-core build.  Thread 1 is the interrupted code, the other threads
\* are interrupt handlers.
InitIrq ==
    /\ single_core = TRUE
    /\ probe = FALSE
    /\ cell \in Vals
    /\ max_iterations = 0
    /\ inited = FALSE
    /\ InitThreads
    /\ InitObjects

Main == 1
Handlers == Threads \ {Main}

\* An interrupt between two steps of the interrupted code: the handler stores
\* v into the cell and returns.
Interrupt(h, v) == libembd_atomic_store(h, v)

NextIrq ==
    \/ \E e \in Vals, d \in Vals :
          \/ libembd_atomic_compare_exchange_weak_call(Main, e, d)
          \/ libembd_atomic_compare_exchange_strong_call(Main, e, d)
    \/ WeakStep(Main)
    \/ StrongStep(Main)
    \/ \E h \in Handlers, v \in Vals : Interrupt(h, v)

SpecIrq == InitIrq /\ [][NextIrq]_vars

\* C15: on a single core pre-empted by interrupts that write the cell, a
\* compare-exchange (weak or strong) that returns TRUE has replaced exactly the
\* value it compared equal to *expected: at the store of a call that returns
\* TRUE the cell still holds that value, so no write made by an interrupt
\* between the load and the store is overwritten.
C15_AtomicUnderInterrupts ==
    [][\A t \in Threads :
          ((InWeak(t) \/ InStrong(t)) /\ ret'[t] = "TRUE") =>
              (cell = expected[t] /\ cell' = desired[t])]_vars

\* ------------------------------------------------------ load and store: any

NextOrder ==
    \/ \E t \in Threads : libembd_atomic_load(t)
    \/ \E t \in Threads, v \in Vals : libembd_atomic_store(t, v)
    \/ \E t \in Threads, m \in MemoryOrders : libembd_atomic_load_explicit(t, m)
    \/ \E t \in Threads, v \in Vals, m \in MemoryOrders :
          libembd_atomic_store_explicit(t, v, m)

\* Threads loading and storing one cell, any values and orders, one call after
\* another (no two calls overlap).
SpecOrder == InitCas /\ [][NextOrder]_vars

\* the last call of t was a store, a load
Stored(t) == op[t] \in {"store", "store_explicit"}
Loaded(t) == op[t] \in {"load", "load_explicit"}

\* C16: an atomic store always takes effect: when store(v) or
\* store_explicit(v, order) returns, the cell holds v, and a load returns what
\* the cell holds; in both builds, whatever the state of the reservation.
C16_StoreTakesEffect ==
    [][\A t \in Threads :
          /\ \A v \in Vals :
                (\/ libembd_atomic_store(t, v)
                 \/ \E m \in MemoryOrders : libembd_atomic_store_explicit(t, v, m))
                => cell' = v
          /\ (\/ libembd_atomic_load(t)
              \/ \E m \in MemoryOrders : libembd_atomic_load_explicit(t, m))
             => val'[t] = cell']_vars

\* ------------------------------------------- barrier placement: claims

\* the hardware barriers and the access of t's last call, in program order
IsHardware(e) == e # CompilerBarrier
HardwareEvents(t) == SelectSeq(events[t], IsHardware)

FullBarriers == {"DMB_SY", "DMB_ISH"}
StoreBarriers == {"DMB_ST", "DMB_ISHST"}

\* C18: for ordering Acquire or Consume, load_explicit issues its hardware
\* barrier immediately after the read of the cell and none before it.
C18_AcquireBarrierAfterLoad ==
    \A t \in Threads :
        (op[t] = "load_explicit" /\ mo[t] \in {"acquire", "consume"}) =>
            /\ Len(HardwareEvents(t)) = 2
            /\ HardwareEvents(t)[1] = "LDX"
            /\ HardwareEvents(t)[2] \in FullBarriers

\* C19: for ordering Release, store_explicit issues its store-only hardware
\* barrier immediately before the write of the cell and none after it.
C19_ReleaseBarrierBeforeStore ==
    \A t \in Threads :
        (op[t] = "store_explicit" /\ mo[t] = "release") =>
            /\ Len(HardwareEvents(t)) = 2
            /\ HardwareEvents(t)[1] \in StoreBarriers
            /\ HardwareEvents(t)[2] = "STX"

\* C20: for ordering AcqRel or SeqCst, load_explicit and store_explicit issue a
\* full hardware barrier both before and after the access: two barriers.
C20_FullBarrierBothSides ==
    \A t \in Threads :
        (op[t] \in {"load_explicit", "store_explicit"}
             /\ mo[t] \in {"acq_rel", "seq_cst"}) =>
            /\ Len(HardwareEvents(t)) = 3
            /\ HardwareEvents(t)[1] \in FullBarriers
            /\ HardwareEvents(t)[2] \in {"LDX", "STX"}
            /\ HardwareEvents(t)[3] \in FullBarriers

\* ------------------------------------------------------- message passing

\* A machine whose cores perform the accesses they issued in any order, except
\* across an issued hardware barrier: a full barrier (DMB SY, DMB ISH) keeps
\* every access issued before it ahead of every access issued after it, a
\* store barrier (DMB ST, DMB ISHST) does so for the stores.  A compiler
\* barrier issues no instruction.  "W" and "R" are the plain write and read
\* of payload, "STX" and "LDX" the exclusive accesses to the cell.
Stores == {"W", "STX"}
Accesses == {"W", "STX", "LDX", "R"}

\* barrier b orders access e (issued before or after it)
Orders(b, e) ==
    \/ b \in FullBarriers /\ e \in Accesses
    \/ b \in StoreBarriers /\ e \in Stores

\* the i-th instruction in flight of core t may be performed now
CanPerform(t, i) ==
    \A j \in 1..(i - 1) :
        /\ ~Orders(inflight[t][j], inflight[t][i])
        /\ ~Orders(inflight[t][i], inflight[t][j])

Remove(seq, i) == SubSeq(seq, 1, i - 1) \o SubSeq(seq, i + 1, Len(seq))

\* the value published through the cell, and the payload that goes with it
Published == 1
Fresh == 1

\* Core t publishes: payload = Fresh; store_explicit(&cell, Published, release).
Publish(t) ==
    /\ pc[t] = "idle"
    /\ op[t] \in {"none", "load"}
    /\ \A u \in Threads : op[u] # "publish"
    /\ op' = [op EXCEPT ![t] = "publish"]
    /\ mo' = [mo EXCEPT ![t] = "release"]
    /\ val' = [val EXCEPT ![t] = Published]
    /\ inflight' = [inflight EXCEPT ![t] =
           <<"W">> \o StoreEvents(libembd_memory_barrier_internal("release"))]
    /\ UNCHANGED <<build, rest, hw, lock, pc, locals, ret, ghost, events,
                   payload, data>>

\* Core t consumes: load_explicit(&cell, acquire), then it reads payload.
Consume(t) ==
    /\ pc[t] = "idle"
    /\ op[t] \in {"none", "load"}
    /\ op' = [op EXCEPT ![t] = "consume"]
    /\ mo' = [mo EXCEPT ![t] = "acquire"]
    /\ inflight' = [inflight EXCEPT ![t] =
           LoadEvents(libembd_memory_barrier_internal("acquire")) \o <<"R">>]
    /\ UNCHANGED <<build, rest, hw, lock, pc, locals, ret, ghost, events, val,
                   payload, data>>

\* Core t performs the i-th instruction it has in flight.
PerformAt(t, i) ==
    /\ CanPerform(t, i)
    /\ inflight' = [inflight EXCEPT ![t] = Remove(@, i)]
    /\ payload' = IF inflight[t][i] = "W" THEN Fresh ELSE payload
    /\ cell' = IF inflight[t][i] = "STX"
               THEN StoreExclusiveCell(t, val[t]) ELSE cell
    /\ monitor' = CASE inflight[t][i] = "STX" -> StoreExclusiveMonitor(t)
                    [] inflight[t][i] = "LDX" -> LoadExclusiveMonitor(t)
                    [] OTHER -> monitor
    /\ val' = IF inflight[t][i] = "LDX"
              THEN [val EXCEPT ![t] = LoadExclusiveValue] ELSE val
    /\ data' = IF inflight[t][i] = "R"
               THEN [data EXCEPT ![t] = payload] ELSE data
    /\ UNCHANGED <<build, rest, lock, pc, op, locals, ret, ghost, events, mo>>

\* Core t performs one of the instructions it has in flight.
Perform(t) == \E i \in 1..Len(inflight[t]) : PerformAt(t, i)

\* Before it publishes or consumes, a core may have read the cell with load()
\* (in the multi-core build this is what leaves it a reservation).
Prepare(t) == op[t] = "none" /\ libembd_atomic_load(t)

\* The cell and the payload start at 0: nothing published.
InitMP ==
    /\ single_core \in BOOLEAN
    /\ probe = FALSE
    /\ cell = 0
    /\ max_iterations = 0
    /\ inited = FALSE
    /\ InitThreads
    /\ InitObjects

NextMP ==
    \/ \E t \in Threads : Prepare(t)
    \/ \E t \in Threads : Publish(t)
    \/ \E t \in Threads : Consume(t)
    \/ \E t \in Threads : Perform(t)

\* One publisher, the other cores consuming.
SpecMP == InitMP /\ [][NextMP]_vars

\* C17: message passing: a core whose load_explicit(acquire) of the cell
\* returned the published value and which then read the payload has read the
\* payload written before the store_explicit(release), never the stale one.
C17_MessagePassing ==
    \A t \in Threads :
        (op[t] = "consume" /\ inflight[t] = <<>> /\ val[t] = Published) =>
            data[t] = Fresh

\* ------------------------------------------- the instruction stream of a call

\* Either build, a cell holding any value, the stream of every call recorded.
InitStream ==
    /\ single_core \in BOOLEAN
    /\ probe = TRUE
    /\ cell \in Vals
    /\ max_iterations = 0
    /\ inited = FALSE
    /\ InitThreads
    /\ InitObjects

\* Every atomic operation, called by one thread with any arguments, and the
\* spurious loss of its reservation: the stream of a call depends on the path
\* the call takes, and one caller takes them all.
NextStream ==
    \/ libembd_atomic_load(Main)
    \/ \E v \in Vals : libembd_atomic_store(Main, v)
    \/ \E m \in MemoryOrders : libembd_atomic_load_explicit(Main, m)
    \/ \E v \in Vals, m \in MemoryOrders :
          libembd_atomic_store_explicit(Main, v, m)
    \/ \E e \in Vals, d \in Vals :
          libembd_atomic_compare_exchange_weak_call(Main, e, d)
    \/ \E e \in Vals, d \in Vals :
          libembd_atomic_compare_exchange_strong_call(Main, e, d)
    \/ WeakStep(Main)
    \/ StrongStep(Main)
    \/ LoseReservation(Main)

SpecStream == InitStream /\ [][NextStream]_vars

\* the operation of t has returned (load and store are one step)
Done(t) == op[t] # "none" /\ pc[t] = "idle"

Count(seq, e) == Len(SelectSeq(seq, LAMBDA x : x = e))
IsAccess(e) == e \in {"LDX", "STX"}

\* C21: every atomic operation emits a compiler barrier on every path, for
\* every ordering: the stream of a call that has issued an access holds a
\* compiler barrier for each access; and load_explicit and store_explicit
\* with the relaxed ordering issue no hardware barrier.
C21_CompilerBarrierAlways ==
    \A t \in Threads :
        /\ events[t] # <<>> =>
              /\ Count(events[t], CompilerBarrier)
                    >= Len(SelectSeq(events[t], IsAccess))
              /\ Count(events[t], CompilerBarrier) >= 1
        /\ (Done(t) /\ op[t] \in {"load_explicit", "store_explicit"}
               /\ mo[t] = "relaxed") =>
              \A i \in 1..Len(events[t]) :
                  events[t][i] \notin FullBarriers \cup StoreBarriers

\* C21 witness: a relaxed store_explicit has returned, having issued the
\* store-exclusive and a compiler barrier and nothing else.
C21_Witness ==
    \E t \in Threads :
        /\ Done(t) /\ op[t] = "store_explicit" /\ mo[t] = "relaxed"
        /\ events[t] = <<"STX", CompilerBarrier>>

\* C22: the default-ordering operations are the explicit ones with a fixed
\* ordering: a returned load() has issued exactly the barriers and accesses
\* of load_explicit(acquire), and a returned store(v) exactly those of
\* store_explicit(v, release), the scope of the barrier included.
C22_DefaultIsExplicit ==
    \A t \in Threads :
        /\ (Done(t) /\ op[t] = "load") =>
              events[t] = LoadEvents(libembd_memory_barrier_internal("acquire"))
        /\ (Done(t) /\ op[t] = "store") =>
              events[t] = StoreEvents(libembd_memory_barrier_internal("release"))

\* ------------------------------------------------------------------- timer

\* the largest finite duration a timer is started with, besides the two
\* at the top of the range
MaxDuration == 11

\* the ghost count of callbacks saturates here
MaxFired == 2

Durations == (0..MaxDuration)
                \cup {LIBEMBD_TIMER_DURATION_INF - 1, LIBEMBD_TIMER_DURATION_INF}

\* What an expiry callback does: nothing to the timer, libembd_stop_timer on
\* it, or libembd_start_timer on it with the duration it had.
Tasks == {"task_idle", "task_stop", "task_restart"}

\* ticks are counted up to here: two more than bring time_elapsed round once
TickCap(p) == (DurationRange \div p) + 2

Max(a, b) == IF a > b THEN a ELSE b
Ceil(d, p) == (d + p - 1) \div p

LIBEMBD_IS_TIMER_UNITIALIZED(t) == t.timer_state = TIMER_STATE_UNINIT

\* a started test that takes every made timer for a started one
LIBEMBD_IS_TIMER_STARTED_Made(t) == t.timer_state # TIMER_STATE_UNINIT

LIBEMBD_IS_TIMER_STARTED(t) == t.timer_state = TIMER_STATE_ACTIVE

LIBEMBD_IS_TIMER_STOPPED(t) == t.timer_state = TIMER_STATE_INIT

\* libembd_timer_post_expiry_oneshot
libembd_timer_post_expiry_oneshot(t) ==
    [t EXCEPT !.timer_state = TIMER_STATE_INIT]

\* a re-arm that starts the timer whatever the callback did
libembd_timer_post_expiry_recurring_Always(t) ==
    [t EXCEPT !.timer_state = TIMER_STATE_ACTIVE, !.time_elapsed = 0]

\* libembd_timer_post_expiry_recurring: re-arm unless the callback stopped
\* the timer
libembd_timer_post_expiry_recurring(t) ==
    IF ~LIBEMBD_IS_TIMER_STOPPED(t) THEN [t EXCEPT !.time_elapsed = 0] ELSE t

\* LIBEMBD_TIMER_HANDLE_POST_EXPIRY(timer, timer->type)
LIBEMBD_TIMER_HANDLE_POST_EXPIRY(t) ==
    IF t.type = TIMER_TYPE_ONE_SHOT
    THEN libembd_timer_post_expiry_oneshot(t)
    ELSE libembd_timer_post_expiry_recurring(t)

\* the timer after libembd_make_timer(timer, ty, task), and what it returns
MakeOk(ty) == ty \in {TIMER_TYPE_ONE_SHOT, TIMER_TYPE_PERIODIC}
MakeTimer(t, ty, task) ==
    IF MakeOk(ty)
    THEN [t EXCEPT !.type = ty, !.on_expiry = task,
                   !.timer_state = TIMER_STATE_INIT]
    ELSE t

\* a start that refuses nothing
StartRefused_Never(t) == FALSE

\* libembd_start_timer returns E_NOT_OK at once on an uninitialized timer
StartRefused(t) == LIBEMBD_IS_TIMER_UNITIALIZED(t)

\* a start that leaves the interval of a started timer
StartInterval_Kept(t, d) ==
    IF LIBEMBD_IS_TIMER_STARTED(t) THEN t.interval ELSE d

\* timer->interval = duration
StartInterval(t, d) == d

\* the timer after libembd_start_timer(timer, d)
StartTimer(t, d) ==
    IF StartRefused(t)
    THEN t
    ELSE [t EXCEPT !.interval = StartInterval(t, d), !.time_elapsed = 0,
                   !.timer_state = TIMER_STATE_ACTIVE]

\* the timer after libembd_stop_timer(timer)
StopTimer(t) ==
    IF LIBEMBD_IS_TIMER_UNITIALIZED(t)
    THEN t
    ELSE [t EXCEPT !.timer_state = TIMER_STATE_INIT]

\* the timer after libembd_rewind_timer(timer)
RewindTimer(t) ==
    IF ~LIBEMBD_IS_TIMER_STARTED(t) THEN t ELSE [t EXCEPT !.time_elapsed = 0]

\* timer->on_expiry(): the timer after the callback
OnExpiry(t) ==
    CASE t.on_expiry = "task_stop" -> StopTimer(t)
      [] t.on_expiry = "task_restart" -> StartTimer(t, t.interval)
      [] OTHER -> t

\* timer->time_elapsed += period, in the width of libembd_timer_duration_ms
Elapsed(t, p) == (t.time_elapsed + p) % DurationRange

\* the tick of period p reaches the callback
Expires(t, p) == LIBEMBD_IS_TIMER_STARTED(t) /\ Elapsed(t, p) >= t.interval

\* the timer after libembd_timer_tick_internal(timer, p)
TickTimer(t, p) ==
    IF ~LIBEMBD_IS_TIMER_STARTED(t)
    THEN t
    ELSE IF Elapsed(t, p) >= t.interval
         THEN LIBEMBD_TIMER_HANDLE_POST_EXPIRY(
                  OnExpiry([t EXCEPT !.time_elapsed = Elapsed(t, p)]))
         ELSE [t EXCEPT !.time_elapsed = Elapsed(t, p)]

\* libembd_make_timer(timer, ty, task)
libembd_make_timer(ty, task) ==
    /\ timer' = MakeTimer(timer, ty, task)
    /\ last' = "make"
    /\ prior' = timer.timer_state
    /\ result' = IF MakeOk(ty) THEN "E_OK" ELSE "E_NOT_OK"
    /\ invoked' = FALSE
    /\ clean' = FALSE
    /\ fired' = 0
    /\ UNCHANGED <<tick_period, ticks, atomics, msh>>

\* libembd_start_timer(timer, d)
libembd_start_timer(d) ==
    /\ timer' = StartTimer(timer, d)
    /\ last' = "start"
    /\ prior' = timer.timer_state
    /\ result' = IF StartRefused(timer) THEN "E_NOT_OK" ELSE "E_OK"
    /\ invoked' = FALSE
    /\ clean' = ~StartRefused(timer)
    /\ fired' = 0
    /\ ticks' = 0
    /\ UNCHANGED <<tick_period, atomics, msh>>

\* libembd_stop_timer(timer)
libembd_stop_timer ==
    /\ timer' = StopTimer(timer)
    /\ last' = "stop"
    /\ prior' = timer.timer_state
    /\ result' = "void"
    /\ invoked' = FALSE
    /\ clean' = FALSE
    /\ fired' = 0
    /\ UNCHANGED <<tick_period, ticks, atomics, msh>>

\* libembd_rewind_timer(timer)
libembd_rewind_timer ==
    /\ timer' = RewindTimer(timer)
    /\ last' = "rewind"
    /\ prior' = timer.timer_state
    /\ result' = "void"
    /\ invoked' = FALSE
    /\ clean' = FALSE
    /\ fired' = 0
    /\ ticks' = IF LIBEMBD_IS_TIMER_STARTED(timer) THEN 0 ELSE ticks
    /\ UNCHANGED <<tick_period, atomics, msh>>

\* libembd_timer_tick_internal(timer, p), the callback and the post-expiry
\* handler included
libembd_timer_tick_internal(p) ==
    /\ tick_period = p
    /\ LIBEMBD_IS_TIMER_STARTED(timer) => ticks < TickCap(p)
    /\ timer' = TickTimer(timer, p)
    /\ last' = "tick"
    /\ prior' = timer.timer_state
    /\ result' = "void"
    /\ invoked' = Expires(timer, p)
    /\ clean' = (clean /\ (Expires(timer, p) => timer.on_expiry = "task_idle"))
    /\ fired' = IF clean' /\ Expires(timer, p) THEN Min(fired + 1, MaxFired)
                ELSE IF clean' THEN fired ELSE 0
    /\ ticks' = IF ~LIBEMBD_IS_TIMER_STARTED(timer) THEN ticks
                ELSE IF Expires(timer, p) /\ LIBEMBD_IS_TIMER_STARTED(timer')
                     THEN 0 ELSE ticks + 1
    /\ UNCHANGED <<tick_period, atomics, msh>>

libembd_timer_tick_5ms == libembd_timer_tick_internal(LIBEMBD_TIMER_PERIOD_5_MS)
libembd_timer_tick_10ms == libembd_timer_tick_internal(LIBEMBD_TIMER_PERIOD_10_MS)
libembd_timer_tick_20ms == libembd_timer_tick_internal(LIBEMBD_TIMER_PERIOD_20_MS)
libembd_timer_tick_100ms == libembd_timer_tick_internal(LIBEMBD_TIMER_PERIOD_100_MS)
libembd_timer_tick_1s == libembd_timer_tick_internal(LIBEMBD_TIMER_PERIOD_1000_MS)

Tick ==
    \/ libembd_timer_tick_5ms
    \/ libembd_timer_tick_10ms
    \/ libembd_timer_tick_20ms
    \/ libembd_timer_tick_100ms
    \/ libembd_timer_tick_1s

\* One timer of static storage, driven by one of the five tick functions; the
\* atomic cell is not used.
InitTimer ==
    /\ single_core = TRUE
    /\ probe = FALSE
    /\ cell = 0
    /\ max_iterations = 0
    /\ inited = FALSE
    /\ InitThreads
    /\ ZeroTimer
    /\ ZeroMarshal
    /\ tick_period \in Periods

NextTimer ==
    \/ \E ty \in {TIMER_TYPE_ONE_SHOT, TIMER_TYPE_PERIODIC,
                  TIMER_TYPE_LAST_DO_NOT_USE}, task \in Tasks :
          libembd_make_timer(ty, task)
    \/ \E d \in Durations : libembd_start_timer(d)
    \/ libembd_stop_timer
    \/ libembd_rewind_timer
    \/ libembd_timer_tick_5ms
    \/ libembd_timer_tick_10ms
    \/ libembd_timer_tick_20ms
    \/ libembd_timer_tick_100ms
    \/ libembd_timer_tick_1s

SpecTimer == InitTimer /\ [][NextTimer]_vars

TimerTypeOK ==
    /\ timer.timer_state \in {TIMER_STATE_UNINIT, TIMER_STATE_INIT,
                              TIMER_STATE_ACTIVE}
    /\ timer.type \in {TIMER_TYPE_ONE_SHOT, TIMER_TYPE_PERIODIC}
    /\ timer.interval \in 0..(DurationRange - 1)
    /\ timer.time_elapsed \in 0..(DurationRange - 1)
    /\ ticks \in 0..TickCap(tick_period)
    /\ fired \in 0..MaxFired

\* C23: libembd_start_timer on a timer that was never made (timer_state
\* uninitialized) returns E_NOT_OK and changes no field of the timer; on a
\* made timer it returns E_OK.
C23_StartNeedsMake ==
    [][\A d \in Durations :
          libembd_start_timer(d) =>
              IF timer.timer_state = TIMER_STATE_UNINIT
              THEN result' = "E_NOT_OK" /\ timer' = timer
              ELSE result' = "E_OK"]_vars

\* C23 witness: start was called on the timer before any successful make and
\* was refused.
C23_Witness ==
    /\ last = "start" /\ prior = TIMER_STATE_UNINIT
    /\ result = "E_NOT_OK" /\ timer.timer_state = TIMER_STATE_UNINIT

\* C24: libembd_start_timer(d) on an already started timer returns E_OK, keeps
\* it started, sets the interval to d and the elapsed time to 0, so the next
\* expiry is measured from this call with the new duration.
C24_RestartRearms ==
    [][\A d \in Durations :
          (timer.timer_state = TIMER_STATE_ACTIVE /\ libembd_start_timer(d)) =>
              /\ result' = "E_OK"
              /\ timer'.timer_state = TIMER_STATE_ACTIVE
              /\ timer'.interval = d
              /\ timer'.time_elapsed = 0
              /\ ticks' = 0]_vars

\* C24 witness: a started timer has been started again, with the longest of
\* the short durations.
C24_Witness ==
    /\ last = "start" /\ prior = TIMER_STATE_ACTIVE /\ result = "E_OK"
    /\ timer.timer_state = TIMER_STATE_ACTIVE
    /\ timer.interval = MaxDuration /\ timer.time_elapsed = 0

\* C25: libembd_stop_timer on an uninitialized or already stopped timer changes
\* no field; and a tick on a stopped timer (after libembd_stop_timer on a
\* started one, until it is started again) invokes no callback and changes no
\* field, the elapsed time included.
C25_StoppedIsInert ==
    /\ [][(timer.timer_state # TIMER_STATE_ACTIVE /\ libembd_stop_timer)
            => timer' = timer]_vars
    /\ [][(timer.timer_state = TIMER_STATE_ACTIVE /\ libembd_stop_timer)
            => /\ timer'.timer_state = TIMER_STATE_INIT
               /\ timer'.time_elapsed = timer.time_elapsed]_vars
    /\ [][(timer.timer_state = TIMER_STATE_INIT /\ Tick)
            => (timer' = timer /\ ~invoked')]_vars

\* C25 witness: a timer stopped part of the way to its expiry has been ticked.
C25_Witness ==
    /\ last = "tick" /\ prior = TIMER_STATE_INIT
    /\ timer.timer_state = TIMER_STATE_INIT
    /\ timer.time_elapsed > 0 /\ timer.time_elapsed < timer.interval

\* the tick, counted from the start, at which a timer of duration d driven
\* every p ms is due: the first at which the accumulated tick time is >= d
DueTick(d, p) == Max(1, Ceil(d, p))

\* the timer was started with a finite duration and nothing but ticks was
\* called since, the callback calling nothing either
Undisturbed(ty) ==
    /\ clean
    /\ timer.type = ty
    /\ timer.interval # LIBEMBD_TIMER_DURATION_INF

\* C26: after libembd_start_timer(d) on a one-shot timer ticked every p ms
\* with no other API call, the callback is invoked exactly once, at tick
\* number max(1, ceil(d / p)); the timer is then stopped and later ticks
\* invoke nothing.
C26_OneShotFiresOnce ==
    Undisturbed(TIMER_TYPE_ONE_SHOT) =>
        /\ LIBEMBD_IS_TIMER_STARTED(timer) =>
              (fired = 0 /\ ticks < DueTick(timer.interval, tick_period))
        /\ LIBEMBD_IS_TIMER_STOPPED(timer) =>
              (fired = 1 /\ ticks = DueTick(timer.interval, tick_period))
        /\ invoked => (ticks = DueTick(timer.interval, tick_period)
                         /\ LIBEMBD_IS_TIMER_STOPPED(timer))

\* C27: a periodic timer started with d and ticked every p ms with no other
\* API call invokes its callback at exactly the ticks k * max(1, ceil(d / p)):
\* at every expiry it is re-armed with elapsed time 0 and stays started, and
\* each expiry comes max(1, ceil(d / p)) ticks after the arming before it.
C27_PeriodicFiresEveryDue ==
    /\ [](Undisturbed(TIMER_TYPE_PERIODIC) =>
            /\ LIBEMBD_IS_TIMER_STARTED(timer)
            /\ ticks < DueTick(timer.interval, tick_period)
            /\ invoked => (ticks = 0 /\ timer.time_elapsed = 0))
    /\ [][(Undisturbed(TIMER_TYPE_PERIODIC) /\ Tick /\ invoked') =>
            ticks + 1 = DueTick(timer.interval, tick_period)]_vars

\* C28: if the callback of a periodic timer calls libembd_stop_timer on it,
\* the timer is stopped when the tick returns, and no later tick invokes the
\* callback until the timer is started again.
C28_StopInCallback ==
    /\ [][(timer.type = TIMER_TYPE_PERIODIC /\ timer.on_expiry = "task_stop"
             /\ Tick /\ invoked')
            => (timer'.timer_state = TIMER_STATE_INIT /\ ticks' = ticks + 1)]_vars
    /\ [][(timer.type = TIMER_TYPE_PERIODIC /\ timer.on_expiry = "task_stop"
             /\ Tick /\ last = "tick" /\ timer.timer_state = TIMER_STATE_INIT)
            => (~invoked' /\ timer' = timer)]_vars

\* C28 witness: the tick that expired a periodic timer whose callback stops it
\* has returned, and the timer is stopped.
C28_Witness ==
    /\ last = "tick" /\ invoked
    /\ timer.type = TIMER_TYPE_PERIODIC /\ timer.on_expiry = "task_stop"
    /\ timer.timer_state = TIMER_STATE_INIT

\* C29: a timer started with LIBEMBD_TIMER_DURATION_INF never expires, under
\* any of the five tick periods and after any number of ticks, the elapsed
\* time wrapping in the width of its type.
C29_InfNeverExpires ==
    (last = "tick" /\ timer.interval = LIBEMBD_TIMER_DURATION_INF) => ~invoked

\* -------------------------------------------------------------- marshalling

\* sizeof of the types involved, in bytes, on the 32-bit target
SizeOf(ty) ==
    CASE ty = "uint8" -> 1
      [] ty = "uint16" -> 2
      [] ty = "uint32" -> 4
      [] ty = "float32" -> 4
      [] ty = "pointer" -> 4

RECURSIVE Power(_, _)
Power(b, n) == IF n = 0 THEN 1 ELSE b * Power(b, n - 1)

\* the values of an unsigned type of n bytes
Values(n) == 0..(Power(ByteRange, n) - 1)

\* byte k of v, k = 0 the least significant
ByteOf(v, k) == (v \div Power(ByteRange, k)) % ByteRange

\* the object representation of the n-byte value v on the host, lowest
\* address first: what LIBEMBD_MEMCPY copies from &v
HostBytes(v, n) ==
    [i \in 1..n |-> IF host_little THEN ByteOf(v, i - 1) ELSE ByteOf(v, n - i)]

RECURSIVE Sum(_, _)
Sum(f, n) == IF n = 0 THEN 0 ELSE f[n] + Sum(f, n - 1)

\* the n-byte value whose object representation on the host is bs: what
\* LIBEMBD_MEMCPY into a variable leaves in it
FromHostBytes(bs) ==
    Sum([i \in 1..Len(bs) |->
            bs[i] * Power(ByteRange,
                          IF host_little THEN i - 1 ELSE Len(bs) - i)],
        Len(bs))

\* LIBEMBD_BSWAP16 / LIBEMBD_BSWAP32: the bytes of v in reverse order
LIBEMBD_BSWAP(v, n) ==
    Sum([i \in 1..n |-> ByteOf(v, i - 1) * Power(ByteRange, n - i)], n)

\* LIBEMBD_HTONS / LIBEMBD_HTONL and LIBEMBD_NTOHS / LIBEMBD_NTOHL
LIBEMBD_HTON(v, n) == IF host_little THEN LIBEMBD_BSWAP(v, n) ELSE v
LIBEMBD_NTOH(v, n) == IF host_little THEN LIBEMBD_BSWAP(v, n) ELSE v

\* the n-byte value v in network order (most significant byte first)
NetworkBytes(v, n) == [i \in 1..n |-> ByteOf(v, n - i)]

\* LIBEMBD_MEMCPY(&buffer[at], bs, Len(bs)): the buffer after it
WriteAt(buf, at, bs) ==
    [i \in 1..Len(buf) |->
        IF i - 1 >= at /\ i - 1 < at + Len(bs) THEN bs[i - at] ELSE buf[i]]

\* LIBEMBD_MEMCPY(dst, &buffer[at], n): the bytes copied
ReadAt(buf, at, n) == [i \in 1..n |-> buf[at + i]]

\* LIBEMBD_MARSHALLING_ASSERT_HAS_SPACE_FOR(ctx, pos, size)
HAS_SPACE_FOR(ctx, pos, size) == pos + size <= ctx.capacity

\* LIBEMBD_MARSHALLING_ASSERT_NO_OVERFLOW(ctx, size)
NO_OVERFLOW(ctx, size) == ctx.position + size <= ctx.capacity

\* A store of the bytes bs into the serializer's buffer at index at.  The
\* store stays inside the buffer: the calls are those the caller is allowed to
\* make.
StoreBytes(at, bs) ==
    /\ at + Len(bs) <= ser.capacity
    /\ buffer' = WriteAt(buffer, at, bs)
    /\ UNCHANGED <<host_little, ser, deser, out, trip, tmr, atomics>>

\* A load of n bytes at index at of the deserializer's buffer, delivered as
\* the object representation bs of the value stored through the pointer.
LoadBytes(at, n, bs) ==
    /\ at + n <= deser.capacity
    /\ out' = bs
    /\ UNCHANGED <<host_little, buffer, ser, deser, trip, tmr, atomics>>

\* libembd_write_to_network_short_internal(ser, pos, val) and
\* libembd_write_to_network_long_internal(ser, pos, val), n = 2 and 4
libembd_write_to_network_internal(pos, host_value, n) ==
    StoreBytes(ser.position, HostBytes(LIBEMBD_HTON(host_value, n), n))

\* libembd_write_to_network_float32_internal(ser, pos, host_value)
libembd_write_to_network_float32_internal(pos, host_value) ==
    StoreBytes(pos, HostBytes(LIBEMBD_HTON(host_value, SizeOf("float32")),
                              SizeOf("float32")))

\* libembd_read_from_network_short_internal(deser, pos, p2val) and
\* libembd_read_from_network_long_internal(deser, pos, p2val), n = 2 and 4
libembd_read_from_network_internal(pos, n) ==
    pos + n <= deser.capacity
    /\ LoadBytes(pos, n,
                 HostBytes(LIBEMBD_NTOH(FromHostBytes(ReadAt(buffer, pos, n)), n),
                           n))

\* libembd_read_from_network_float32_internal(deser, pos, p2val)
libembd_read_from_network_float32_internal(pos) ==
    deser.position + SizeOf("float32") <= deser.capacity
    /\ LoadBytes(deser.position, SizeOf("float32"),
                 HostBytes(LIBEMBD_NTOH(FromHostBytes(
                               ReadAt(buffer, deser.position, SizeOf("float32"))),
                               SizeOf("float32")),
                           SizeOf("float32")))

\* LIBEMBD_MARSHALLING_WRITE_TO_HOST_TYPE_GENERIC(ser, pos, val), n = sizeof(val)
WRITE_TO_HOST_TYPE_GENERIC(pos, host_value, n) ==
    StoreBytes(pos, HostBytes(host_value, n))

\* LIBEMBD_MARSHALLING_READ_FROM_HOST_TYPE_GENERIC(deser, pos, p2val),
\* n = sizeof(*p2val)
READ_FROM_HOST_TYPE_GENERIC(pos, n) ==
    pos + n <= deser.capacity /\ LoadBytes(pos, n, ReadAt(buffer, pos, n))

libembd_write_uint8_unsafe(position, host_value) ==
    /\ HAS_SPACE_FOR(ser, position, SizeOf("uint8"))
    /\ WRITE_TO_HOST_TYPE_GENERIC(position, host_value, SizeOf("uint8"))

libembd_write_uint16_to_network_unsafe(position, host_value) ==
    /\ HAS_SPACE_FOR(ser, position, SizeOf("uint16"))
    /\ libembd_write_to_network_internal(position, host_value, SizeOf("uint16"))

libembd_write_uint16_to_host_unsafe(position, host_value) ==
    /\ NO_OVERFLOW(ser, SizeOf("uint16"))
    /\ WRITE_TO_HOST_TYPE_GENERIC(position, host_value, SizeOf("uint16"))

libembd_write_uint32_to_network_unsafe(position, host_value) ==
    /\ HAS_SPACE_FOR(ser, position, SizeOf("uint32"))
    /\ libembd_write_to_network_internal(position, host_value, SizeOf("uint32"))

libembd_write_uint32_to_host_unsafe(position, host_value) ==
    /\ HAS_SPACE_FOR(ser, position, SizeOf("uint32"))
    /\ WRITE_TO_HOST_TYPE_GENERIC(position, host_value, SizeOf("uint32"))

libembd_write_float32_to_network_unsafe(position, host_value) ==
    /\ HAS_SPACE_FOR(ser, position, SizeOf("float32"))
    /\ libembd_write_to_network_float32_internal(position, host_value)

libembd_write_float32_to_host_unsafe(position, host_value) ==
    /\ HAS_SPACE_FOR(ser, position, SizeOf("float32"))
    /\ WRITE_TO_HOST_TYPE_GENERIC(position, host_value, SizeOf("float32"))

libembd_write_buffer_unsafe(position, bs) ==
    /\ HAS_SPACE_FOR(ser, position, Len(bs))
    /\ StoreBytes(position, bs)

\* The typed reads assert space for sizeof(host_value), and host_value is the
\* pointer.
libembd_read_uint8_unsafe(position) ==
    /\ HAS_SPACE_FOR(deser, position, SizeOf("pointer"))
    /\ LoadBytes(position, SizeOf("uint8"), <<buffer[position + 1]>>)

libembd_read_uint16_from_network_unsafe(position) ==
    /\ HAS_SPACE_FOR(deser, position, SizeOf("pointer"))
    /\ libembd_read_from_network_internal(position, SizeOf("uint16"))

libembd_read_uint16_from_host_unsafe(position) ==
    /\ HAS_SPACE_FOR(deser, position, SizeOf("pointer"))
    /\ READ_FROM_HOST_TYPE_GENERIC(position, SizeOf("uint16"))

libembd_read_uint32_from_network_unsafe(position) ==
    /\ HAS_SPACE_FOR(deser, position, SizeOf("pointer"))
    /\ libembd_read_from_network_internal(position, SizeOf("uint32"))

libembd_read_uint32_from_host_unsafe(position) ==
    /\ HAS_SPACE_FOR(deser, position, SizeOf("pointer"))
    /\ READ_FROM_HOST_TYPE_GENERIC(position, SizeOf("uint32"))

libembd_read_float32_from_network_unsafe(position) ==
    /\ HAS_SPACE_FOR(deser, position, SizeOf("pointer"))
    /\ libembd_read_from_network_float32_internal(position)

libembd_read_float32_from_host_unsafe(position) ==
    /\ HAS_SPACE_FOR(deser, position, SizeOf("pointer"))
    /\ READ_FROM_HOST_TYPE_GENERIC(position, SizeOf("float32"))

\* libembd_read_buffer_unsafe(deser, position, buffer, pLength) with
\* *pLength = length: *pLength becomes the length of the bytes delivered
libembd_read_buffer_unsafe(position, length) ==
    /\ HAS_SPACE_FOR(deser, position, 0)
    /\ LoadBytes(position, Min(length, deser.capacity - position),
                 ReadAt(buffer, position,
                        Min(length, deser.capacity - position)))

\* libembd_serializer_seek(ser, position)
libembd_serializer_seek(position) ==
    /\ ser' = [ser EXCEPT !.position = Min(position, ser.capacity)]
    /\ UNCHANGED <<host_little, buffer, deser, out, trip, tmr, atomics>>

\* libembd_deserializer_seek(deser, position)
libembd_deserializer_seek(position) ==
    /\ deser' = [deser EXCEPT !.position = Min(position, deser.capacity)]
    /\ UNCHANGED <<host_little, buffer, ser, out, trip, tmr, atomics>>

\* ------------------------------------------- the positioned operations

MaxChunk == 2

\* the positions and lengths a caller passes
Positions == 0..(BufferLen + 1)

\* the lengths a caller passes to libembd_read_buffer_unsafe
Lengths == 0..MaxChunk

\* the 32-bit values a caller passes: one per byte set alone, and one whose
\* image is no palindrome
Words == {Power(ByteRange, k) : k \in 0..(SizeOf("uint32") - 1)}
             \cup {Power(ByteRange, SizeOf("uint32")) - ByteRange}

\* the byte strings a caller passes to libembd_write_buffer_unsafe
Chunks == UNION {[1..n -> Bytes] : n \in 0..MaxChunk}

InitMarshal ==
    /\ single_core = TRUE
    /\ probe = FALSE
    /\ cell = 0
    /\ max_iterations = 0
    /\ inited = FALSE
    /\ InitThreads
    /\ ZeroTimer
    /\ tick_period = LIBEMBD_TIMER_PERIOD_5_MS
    /\ host_little \in BOOLEAN
    /\ buffer \in [1..BufferLen -> Bytes]
    /\ ser = [capacity |-> BufferLen, position |-> 0]
    /\ deser = [capacity |-> BufferLen, position |-> 0]
    /\ out = <<>>
    /\ ZeroTrip

PositionedWrite ==
    \E position \in Positions :
        \/ \E v \in Values(SizeOf("uint8")) :
               libembd_write_uint8_unsafe(position, v)
        \/ \E v \in Values(SizeOf("uint16")) :
               \/ libembd_write_uint16_to_network_unsafe(position, v)
               \/ libembd_write_uint16_to_host_unsafe(position, v)
        \/ \E v \in Words :
               \/ libembd_write_uint32_to_network_unsafe(position, v)
               \/ libembd_write_uint32_to_host_unsafe(position, v)
               \/ libembd_write_float32_to_network_unsafe(position, v)
               \/ libembd_write_float32_to_host_unsafe(position, v)
        \/ \E bs \in Chunks : libembd_write_buffer_unsafe(position, bs)

PositionedRead ==
    \E position \in Positions :
        \/ libembd_read_uint8_unsafe(position)
        \/ libembd_read_uint16_from_network_unsafe(position)
        \/ libembd_read_uint16_from_host_unsafe(position)
        \/ libembd_read_uint32_from_network_unsafe(position)
        \/ libembd_read_uint32_from_host_unsafe(position)
        \/ libembd_read_float32_from_network_unsafe(position)
        \/ libembd_read_float32_from_host_unsafe(position)
        \/ \E length \in Lengths :
               libembd_read_buffer_unsafe(position, length)

Seek ==
    \E position \in Positions :
        \/ libembd_serializer_seek(position)
        \/ libembd_deserializer_seek(position)

NextPositioned == PositionedWrite \/ PositionedRead \/ Seek

SpecPositioned == InitMarshal /\ [][NextPositioned]_vars

\* the value whose image in network order is bs
FromNetworkBytes(bs) ==
    Sum([i \in 1..Len(bs) |-> bs[i] * Power(ByteRange, Len(bs) - i)], Len(bs))

\* a write of the image bs at position: those bytes and no others change, and
\* the cursor stays
WritesAt(position, bs) ==
    /\ buffer' = WriteAt(buffer, position, bs)
    /\ ser' = ser

\* a read at position delivering bs: the buffer and the cursor stay
ReadsAt(bs) ==
    /\ out' = bs
    /\ buffer' = buffer
    /\ deser' = deser

\* C30: every positioned operation accesses the buffer bytes starting at its
\* position argument, whatever the cursor is, and leaves the cursor unchanged:
\* a positioned write stores the image of its value at position and changes
\* nothing else, a positioned read delivers the value held at position.
C30_PositionedAtPosition ==
    [][\A position \in Positions :
        /\ \A v \in Values(SizeOf("uint8")) :
               libembd_write_uint8_unsafe(position, v)
                   => WritesAt(position, <<v>>)
        /\ \A v \in Values(SizeOf("uint16")) :
               /\ libembd_write_uint16_to_network_unsafe(position, v)
                      => WritesAt(position, NetworkBytes(v, SizeOf("uint16")))
               /\ libembd_write_uint16_to_host_unsafe(position, v)
                      => WritesAt(position, HostBytes(v, SizeOf("uint16")))
        /\ \A v \in Words :
               /\ libembd_write_uint32_to_network_unsafe(position, v)
                      => WritesAt(position, NetworkBytes(v, SizeOf("uint32")))
               /\ libembd_write_uint32_to_host_unsafe(position, v)
                      => WritesAt(position, HostBytes(v, SizeOf("uint32")))
               /\ libembd_write_float32_to_network_unsafe(position, v)
                      => WritesAt(position, NetworkBytes(v, SizeOf("float32")))
               /\ libembd_write_float32_to_host_unsafe(position, v)
                      => WritesAt(position, HostBytes(v, SizeOf("float32")))
        /\ \A bs \in Chunks :
               libembd_write_buffer_unsafe(position, bs)
                   => WritesAt(position, bs)
        /\ libembd_read_uint8_unsafe(position)
               => ReadsAt(ReadAt(buffer, position, SizeOf("uint8")))
        /\ libembd_read_uint16_from_network_unsafe(position)
               => ReadsAt(HostBytes(FromNetworkBytes(
                              ReadAt(buffer, position, SizeOf("uint16"))),
                              SizeOf("uint16")))
        /\ libembd_read_uint16_from_host_unsafe(position)
               => ReadsAt(ReadAt(buffer, position, SizeOf("uint16")))
        /\ libembd_read_uint32_from_network_unsafe(position)
               => ReadsAt(HostBytes(FromNetworkBytes(
                              ReadAt(buffer, position, SizeOf("uint32"))),
                              SizeOf("uint32")))
        /\ libembd_read_uint32_from_host_unsafe(position)
               => ReadsAt(ReadAt(buffer, position, SizeOf("uint32")))
        /\ libembd_read_float32_from_network_unsafe(position)
               => ReadsAt(HostBytes(FromNetworkBytes(
                              ReadAt(buffer, position, SizeOf("float32"))),
                              SizeOf("float32")))
        /\ libembd_read_float32_from_host_unsafe(position)
               => ReadsAt(ReadAt(buffer, position, SizeOf("float32")))
        /\ \A length \in Lengths :
               libembd_read_buffer_unsafe(position, length)
                   => ReadsAt(ReadAt(buffer, position,
                                     Min(length, BufferLen - position)))
      ]_vars

\* ------------------------------------------------ the cursor operations

\* libembd_put_buffer_unsafe(ser, buffer, buffer_length), bs the bytes passed
libembd_put_buffer_unsafe(bs) ==
    /\ NO_OVERFLOW(ser, Len(bs))
    /\ buffer' = WriteAt(buffer, ser.position, bs)
    /\ UNCHANGED <<host_little, ser, deser, out, trip, tmr, atomics>>

\* libembd_get_buffer_unsafe(deser, buffer, pLength) with *pLength = length:
\* out is the bytes copied, *pLength becomes their number
libembd_get_buffer_unsafe(length) ==
    /\ out' = ReadAt(buffer, deser.position,
                     Min(length, deser.capacity - deser.position))
    /\ UNCHANGED <<host_little, buffer, ser, deser, trip, tmr, atomics>>

NextBuffer ==
    \/ \E bs \in Chunks : libembd_put_buffer_unsafe(bs)
    \/ \E length \in Lengths : libembd_get_buffer_unsafe(length)
    \/ \E position \in Positions : libembd_serializer_seek(position)
    \/ \E position \in Positions : libembd_deserializer_seek(position)

\* Raw bytes put and got through the cursors, the cursors moved by seek.
SpecBuffer == InitMarshal /\ [][NextBuffer]_vars

\* C31: libembd_put_buffer_unsafe advances the write position by
\* buffer_length; libembd_get_buffer_unsafe copies min(*pLength, capacity -
\* position) bytes, sets *pLength to that count and advances the read position
\* by it (so consecutive calls transfer adjacent byte ranges).
C31_BufferAdvancesCursor ==
    [][/\ \A bs \in Chunks :
              libembd_put_buffer_unsafe(bs)
                  => /\ buffer' = WriteAt(buffer, ser.position, bs)
                     /\ ser'.position = ser.position + Len(bs)
       /\ \A length \in Lengths :
              libembd_get_buffer_unsafe(length)
                  => /\ out' = ReadAt(buffer, deser.position,
                                      Min(length, BufferLen - deser.position))
                     /\ deser'.position
                            = deser.position
                                  + Min(length, BufferLen - deser.position)
      ]_vars

\* uint32 positions and lengths are kept 4 bits wide for the cursor arithmetic
PositionRange == 16

\* the values of a uint32 argument
Uint32s == 0..(PositionRange - 1)

\* the capacities the contexts are made with: none, the buffer's, the largest
Capacities == {0, BufferLen, PositionRange - 1}

\* new_position of a skip, without the clamp
SkipTo_Unclamped(ctx, num_bytes) == (ctx.position + num_bytes) % PositionRange

\* new_position of libembd_serializer_skip / libembd_deserializer_skip:
\* LIBEMBD_MIN(position + num_bytes, capacity), the sum in uint32
SkipTo(ctx, num_bytes) ==
    Min((ctx.position + num_bytes) % PositionRange, ctx.capacity)

libembd_serializer_skip(num_bytes) ==
    /\ ser' = [ser EXCEPT !.position = SkipTo(ser, num_bytes)]
    /\ skipped' = [ctx |-> "ser", from |-> ser.position,
                   num_bytes |-> num_bytes]
    /\ UNCHANGED <<host_little, buffer, deser, out, sent, got, tmr, atomics>>

libembd_deserializer_skip(num_bytes) ==
    /\ deser' = [deser EXCEPT !.position = SkipTo(deser, num_bytes)]
    /\ skipped' = [ctx |-> "deser", from |-> deser.position,
                   num_bytes |-> num_bytes]
    /\ UNCHANGED <<host_little, buffer, ser, out, sent, got, tmr, atomics>>

libembd_reset_serializer ==
    /\ ser' = [ser EXCEPT !.position = 0]
    /\ UNCHANGED <<host_little, buffer, deser, out, trip, tmr, atomics>>

libembd_reset_deserializer ==
    /\ deser' = [deser EXCEPT !.position = 0]
    /\ UNCHANGED <<host_little, buffer, ser, out, trip, tmr, atomics>>

\* libembd_make_serializer and libembd_make_deserializer over one buffer, with
\* a capacity of the caller's choice
InitCursor ==
    /\ single_core = TRUE
    /\ probe = FALSE
    /\ cell = 0
    /\ max_iterations = 0
    /\ inited = FALSE
    /\ InitThreads
    /\ ZeroTimer
    /\ tick_period = LIBEMBD_TIMER_PERIOD_5_MS
    /\ host_little = TRUE
    /\ buffer = [i \in 1..BufferLen |-> 0]
    /\ \E capacity \in Capacities :
           /\ ser = [capacity |-> capacity, position |-> 0]
           /\ deser = [capacity |-> capacity, position |-> 0]
    /\ out = <<>>
    /\ ZeroTrip

NextCursor ==
    \/ \E num_bytes \in Uint32s : libembd_serializer_skip(num_bytes)
    \/ \E num_bytes \in Uint32s : libembd_deserializer_skip(num_bytes)
    \/ \E position \in Uint32s : libembd_serializer_seek(position)
    \/ \E position \in Uint32s : libembd_deserializer_seek(position)
    \/ libembd_reset_serializer
    \/ libembd_reset_deserializer

\* Any sequence of skip, seek and reset calls, with any uint32 arguments.
SpecCursor == InitCursor /\ [][NextCursor]_vars

\* C32: after any sequence of skip, seek and reset calls on a serializer or
\* deserializer made with capacity C the position is at most C, also when
\* position + num_bytes exceeds the range of uint32.
C32_PositionWithinCapacity ==
    /\ ser.position <= ser.capacity
    /\ deser.position <= deser.capacity

\* a skip whose sum wrapped has just moved the write cursor back below the
\* capacity
C32_Witness ==
    /\ skipped.ctx = "ser"
    /\ skipped.from + skipped.num_bytes >= PositionRange
    /\ skipped.from > 0
    /\ ser.position = skipped.from + skipped.num_bytes - PositionRange
    /\ ser.position < ser.capacity

\* ------------------------------------------- the network-order round trip

\* libembd_put_to_network_short_internal(ser, val) and
\* libembd_put_to_network_long_internal(ser, val), n = 2 and 4: the write at
\* the cursor, then the cursor advanced by the size of the type
libembd_put_to_network_internal(host_value, n) ==
    /\ ser.position + n <= ser.capacity
    /\ buffer' = WriteAt(buffer, ser.position,
                         HostBytes(LIBEMBD_HTON(host_value, n), n))
    /\ ser' = [ser EXCEPT !.position = ser.position + n]
    /\ sent' = Append(sent, <<n, host_value>>)
    /\ UNCHANGED <<host_little, deser, out, skipped, got, tmr, atomics>>

\* the bytes left in *p2val by libembd_read_from_network_short_internal /
\* libembd_read_from_network_long_internal at the cursor
NetworkValueAtCursor(n) ==
    HostBytes(LIBEMBD_NTOH(FromHostBytes(ReadAt(buffer, deser.position, n)), n),
              n)

\* libembd_get_from_network_short_internal(deser, p2val) and
\* libembd_get_from_network_long_internal(deser, p2val), n = 2 and 4
libembd_get_from_network_internal(n) ==
    /\ out' = NetworkValueAtCursor(n)
    /\ deser' = [deser EXCEPT !.position = deser.position + n]

\* A call made with a false LIBEMBD_ASSUME runs into __builtin_unreachable():
\* what is delivered and whether the cursor moves is not defined.  An n-byte
\* get delivers any n bytes and leaves the cursor or advances it.
Unreachable(n) ==
    /\ out' \in [1..n -> Bytes]
    /\ deser' \in {deser, [deser EXCEPT !.position = deser.position + n]}

\* The body of a get of an n-byte value: the assertion takes sizeof(host_value),
\* the size of the pointer.  The value to get is the next one put, and its
\* bytes are in the buffer.
GetFromNetwork(n) ==
    /\ Len(got) < Len(sent)
    /\ sent[Len(got) + 1][1] = n
    /\ deser.position + n <= deser.capacity
    /\ IF NO_OVERFLOW(deser, SizeOf("pointer"))
       THEN libembd_get_from_network_internal(n)
       ELSE Unreachable(n)
    /\ got' = Append(got, <<n, FromHostBytes(out')>>)
    /\ UNCHANGED <<host_little, buffer, ser, skipped, sent, tmr, atomics>>

libembd_put_uint16_to_network_unsafe(host_value) ==
    /\ NO_OVERFLOW(ser, SizeOf("uint16"))
    /\ libembd_put_to_network_internal(host_value, SizeOf("uint16"))

libembd_put_uint32_to_network_unsafe(host_value) ==
    /\ NO_OVERFLOW(ser, SizeOf("uint32"))
    /\ libembd_put_to_network_internal(host_value, SizeOf("uint32"))

libembd_get_uint16_from_network_unsafe == GetFromNetwork(SizeOf("uint16"))

libembd_get_uint32_from_network_unsafe == GetFromNetwork(SizeOf("uint32"))

\* libembd_make_serializer and libembd_make_deserializer over one zeroed
\* buffer, on either host
InitRoundTrip ==
    /\ single_core = TRUE
    /\ probe = FALSE
    /\ cell = 0
    /\ max_iterations = 0
    /\ inited = FALSE
    /\ InitThreads
    /\ ZeroTimer
    /\ tick_period = LIBEMBD_TIMER_PERIOD_5_MS
    /\ host_little \in BOOLEAN
    /\ buffer = [i \in 1..BufferLen |-> 0]
    /\ ser = [capacity |-> BufferLen, position |-> 0]
    /\ deser = [capacity |-> BufferLen, position |-> 0]
    /\ out = <<>>
    /\ ZeroTrip

NextRoundTrip ==
    \/ \E v \in Values(SizeOf("uint16")) :
           libembd_put_uint16_to_network_unsafe(v)
    \/ \E v \in Values(SizeOf("uint32")) :
           libembd_put_uint32_to_network_unsafe(v)
    \/ libembd_get_uint16_from_network_unsafe
    \/ libembd_get_uint32_from_network_unsafe

\* uint16 and uint32 values put in network order, and got in the same order.
SpecRoundTrip == InitRoundTrip /\ [][NextRoundTrip]_vars

RECURSIVE Sizes(_)
Sizes(seq) == IF seq = <<>> THEN 0 ELSE Head(seq)[1] + Sizes(Tail(seq))

\* C33: uint16 and uint32 values put in network order and then got in the
\* same order over the same buffer come back unchanged, each put and get
\* advancing its cursor by the size of the type.
C33_NetworkRoundTrip ==
    /\ \A i \in 1..Len(got) : got[i] = sent[i]
    /\ ser.position = Sizes(sent)
    /\ deser.position = Sizes(got)

\* ------------------------------------------------ spinlock: the attempts

\* C34: every exchange attempt made by try_acquire, the attempts after a
\* failed one included, is a compare_exchange_weak with *expected = 0 and
\* desired = 1, so try_acquire stores 1 only where it read the flag as 0.
C34_EveryAttemptExpectsZero ==
    \A t \in Threads :
        op[t] = "acquire" =>
            /\ pc[t] = "weak_load" => (expected[t] = 0 /\ desired[t] = 1)
            /\ pc[t] = "weak_store" => (old_val[t] = 0 /\ desired[t] = 1)

\* ------------------------------------ compare-exchange strong: the retry

\* C35: when a store-exclusive inside compare_exchange_strong fails, the call
\* loads the cell again before its next compare and store-exclusive: if
\* another core has written a value w other than *expected in between, the
\* call returns FALSE with *expected = w instead of storing again.
C35_RetryReloads ==
    [][\A t \in Threads :
          (/\ ~single_core
           /\ libembd_atomic_compare_exchange_strong_store(t)
           /\ ~StoreSucceeded(t, desired[t])
           /\ cell # expected[t])
              => (pc'[t] = "idle" /\ ret'[t] = "FALSE" /\ expected'[t] = cell)
      ]_vars

\* ------------------------------------ compare-exchange: single-core build

\* C36: in the single-core build, compare_exchange_weak and
\* compare_exchange_strong on a cell whose value equals *expected store
\* desired and return TRUE, whatever the desired value is.
C36_SingleCoreExchange ==
    [][\A t \in Threads :
          (/\ single_core
           /\ op[t] \in {"weak", "strong"}
           /\ quiet[t] /\ match[t]
           /\ \/ libembd_atomic_compare_exchange_weak_store(t)
              \/ libembd_atomic_compare_exchange_strong_store(t))
              => (pc'[t] = "idle" /\ ret'[t] = "TRUE" /\ cell' = desired[t])
      ]_vars

\* ------------------------------------ compare-exchange: the barriers

\* the events of t's call after its first store-exclusive, that one excluded
AfterStore(t) ==
    LET i == CHOOSE k \in 1..Len(events[t]) : events[t][k] = "STX"
    IN  SubSeq(events[t], i + 1, Len(events[t]))

\* the store-exclusive t's call has just made succeeded: the call returned TRUE
StoreReportedSuccess(t) == pc[t] = "idle" /\ ret[t] = "TRUE"

C38_RestartInCallback ==
    [][(/\ Tick
        /\ Expires(timer, tick_period)
        /\ timer.type = TIMER_TYPE_ONE_SHOT
        /\ timer.on_expiry = "task_restart")
           => (LIBEMBD_IS_TIMER_STARTED(timer') /\ timer'.time_elapsed = 0)
      ]_vars

=========================================================================
